---- MODULE Spec2Model ----
(***************************************************************************)
(* Model of the probability-tree editor (so-do-cay): the zustand store of  *)
(* the diagram (use-tree-store), the tree layout engine (tree-layout), the *)
(* TikZ generator (tikz-generator) and the canvas' label placement.        *)
(*                                                                         *)
(* Conventions                                                             *)
(*  - ids are strings; Null stands for JavaScript's null / undefined.      *)
(*  - a node is [id, parentId, label, labelPosition, labelOffset]; the     *)
(*    color field only selects a fill colour and is left out.              *)
(*  - an edge is [id, sourceId, targetId, label, labelPosition,            *)
(*    labelOffsetX, labelOffsetY].                                         *)
(*  - settings is [levelDistance, siblingDistance, direction]; nodeSize    *)
(*    only sets the marker size in the style preamble and is left out.     *)
(*  - coordinates are exact dyadic rationals, held as integers in units of *)
(*    1/Scale px: every value the layout computes is a small integer       *)
(*    divided by a power of two, which IEEE doubles represent exactly.     *)
(***************************************************************************)
EXTENDS Integers, Sequences, FiniteSets, TLC

VARIABLES nodes, edges, settings, selectedId, selectedType, now, nextId,
          pc, positions, out, gmd,
          scene, svgDoc,
          pngCalls, isExporting, clip,
          parse

storeVars == <<nodes, edges, settings, selectedId, selectedType, now, nextId>>
genVars == <<pc, positions, out, gmd>>
svgVars == <<scene, svgDoc>>
uiVars == <<pngCalls, isExporting, clip>>
ioVars == <<svgVars, uiVars, parse>>
vars == <<nodes, edges, settings, selectedId, selectedType, now, nextId,
          pc, positions, out, gmd, scene, svgDoc,
          pngCalls, isExporting, clip, parse>>

Null == "null"

(***************************************************************************)
(* Bounds of the model.                                                    *)
(***************************************************************************)
\* addNode calls explored by the store specification
MaxNewNodes == 1
\* distinct clock readings (Date.now()) seen by addNode
MaxClock == 1
\* nodes of the arbitrary (possibly malformed) inputs of the pure functions
MaxGenNodes == 3

\* the number of labels in an exported scene
MaxLabels == 2

\* PNG exports started and clipboard writes pending in one run
MaxExports == 2
MaxCopies == 2

\* characters after the command in a parsed label
MaxTail == 4

\* addNode calls in a row explored by the specification of the edge ids
MaxAdds == 2

(***************************************************************************)
(* Generic helpers.                                                        *)
(***************************************************************************)
Range(s) == {s[i] : i \in 1..Len(s)}

Ids(ns) == {ns[i].id : i \in 1..Len(ns)}

RECURSIVE Pow2(_)
Pow2(n) == IF n <= 0 THEN 1 ELSE 2 * Pow2(n - 1)

Max2(a, b) == IF a >= b THEN a ELSE b

\* Array.prototype.filter
Filter(s, Test(_)) == SelectSeq(s, Test)

\* Array.prototype.find by id, as the sequence of matches: the result of
\* find is the first one, and undefined when the sequence is empty
FindById(s, id) == Filter(s, LAMBDA n : n.id = id)

RECURSIVE Reverse(_)
Reverse(s) == IF s = <<>> THEN <<>> ELSE Reverse(Tail(s)) \o <<Head(s)>>

(***************************************************************************)
(* types/tree.ts                                                           *)
(***************************************************************************)
DEFAULT_SETTINGS ==
    [levelDistance |-> 120, siblingDistance |-> 200, direction |-> "vertical"]

NODE_LABEL_POSITIONS == <<"above", "below", "left", "right", "center">>
EDGE_LABEL_POSITIONS == <<"left", "right", "above", "below">>

(***************************************************************************)
(* tree-canvas.tsx: the sample diagram loaded when the store is empty.     *)
(* (The root's label is "\text{Gốc } O" in the source.)                    *)
(***************************************************************************)
SAMPLE_NODES == <<
    [id |-> "root", parentId |-> Null, label |-> "\\text{Goc } O",
     labelPosition |-> "above", labelOffset |-> 20],
    [id |-> "a", parentId |-> "root", label |-> "A",
     labelPosition |-> "left", labelOffset |-> 20],
    [id |-> "a-bar", parentId |-> "root", label |-> "\\overline{A}",
     labelPosition |-> "right", labelOffset |-> 20],
    [id |-> "b1", parentId |-> "a", label |-> "B",
     labelPosition |-> "below", labelOffset |-> 20],
    [id |-> "b1-bar", parentId |-> "a", label |-> "\\overline{B}",
     labelPosition |-> "below", labelOffset |-> 20],
    [id |-> "b2", parentId |-> "a-bar", label |-> "B",
     labelPosition |-> "below", labelOffset |-> 20],
    [id |-> "b2-bar", parentId |-> "a-bar", label |-> "\\overline{B}",
     labelPosition |-> "below", labelOffset |-> 20] >>

SAMPLE_EDGES == <<
    [id |-> "e1", sourceId |-> "root", targetId |-> "a", label |-> "0,4",
     labelPosition |-> "left", labelOffsetX |-> 0, labelOffsetY |-> 0],
    [id |-> "e2", sourceId |-> "root", targetId |-> "a-bar", label |-> "0,6",
     labelPosition |-> "right", labelOffsetX |-> 0, labelOffsetY |-> 0],
    [id |-> "e3", sourceId |-> "a", targetId |-> "b1", label |-> "0,3",
     labelPosition |-> "left", labelOffsetX |-> 0, labelOffsetY |-> 0],
    [id |-> "e4", sourceId |-> "a", targetId |-> "b1-bar", label |-> "0,7",
     labelPosition |-> "right", labelOffsetX |-> 0, labelOffsetY |-> 0],
    [id |-> "e5", sourceId |-> "a-bar", targetId |-> "b2", label |-> "0,4",
     labelPosition |-> "left", labelOffsetX |-> 0, labelOffsetY |-> 0],
    [id |-> "e6", sourceId |-> "a-bar", targetId |-> "b2-bar", label |-> "0,6",
     labelPosition |-> "right", labelOffsetX |-> 0, labelOffsetY |-> 0] >>

(***************************************************************************)
(* use-tree-store.ts                                                       *)
(***************************************************************************)
\* generateId: `node-${Date.now()}-${random}`; the random suffix is modelled
\* as making every generated node id fresh.
generateId(k) == "node-" \o ToString(k)

\* `edge-${Date.now()}`: an edge id is determined by the clock reading alone.
edgeIdAt(t) == "edge-" \o ToString(t)

\* Mutant of getDescendantIds: the children only, without the recursion.
getDescendantIdsChildrenOnly(nodeId, ns) ==
    {ns[i].id : i \in {j \in 1..Len(ns) : ns[j].parentId = nodeId}}

\* getDescendantIds: ids of all descendants of nodeId (the code builds an
\* array that is only ever turned into a Set).
RECURSIVE getDescendantIds(_, _)
getDescendantIds(nodeId, ns) ==
    LET children == Filter(ns, LAMBDA n : n.parentId = nodeId)
    IN UNION {{children[i].id} \cup getDescendantIds(children[i].id, ns) :
                i \in 1..Len(children)}

\* Mutant of hasRoot: the "+ root" button is never disabled.
hasRootNever == FALSE

\* hasRoot: nodes.some(n => n.parentId === null)
hasRoot == \E i \in 1..Len(nodes) : nodes[i].parentId = Null

\* addNode(parentId) at clock reading t, with fresh node id newNodeId
addNodeResult(parentId, newNodeId, t) ==
    LET isVertical == settings.direction = "vertical"
        newNode == [id |-> newNodeId, parentId |-> parentId,
                    label |-> IF parentId # Null THEN "New" ELSE "",
                    labelPosition |-> IF isVertical THEN "below" ELSE "right",
                    labelOffset |-> IF isVertical THEN 20 ELSE 15]
        parentNode == FindById(nodes, parentId)
        \* parentNode?.parentId === null
        isFromRoot == Len(parentNode) > 0 /\ parentNode[1].parentId = Null
        isHorizontal == settings.direction = "horizontal"
        newEdge == [id |-> edgeIdAt(t), sourceId |-> parentId,
                    targetId |-> newNodeId, label |-> "",
                    labelPosition |-> IF isHorizontal THEN "above" ELSE "left",
                    labelOffsetX |-> IF isHorizontal /\ isFromRoot THEN -10 ELSE 0,
                    labelOffsetY |-> 0]
    IN [nodes |-> Append(nodes, newNode),
        edges |-> IF parentId # Null THEN Append(edges, newEdge) ELSE edges,
        selectedId |-> newNodeId,
        selectedType |-> "node"]

\* The clock reading of a call: the same millisecond as the previous addNode
\* call, or a later one.
ClockReadings == {t \in {now, now + 1} : t <= MaxClock}

\* addNode(parentId) as the store update, for a run of at most limit calls
addNodeCall(parentId, limit) ==
    /\ nextId < limit
    /\ \E t \in ClockReadings :
         LET r == addNodeResult(parentId, generateId(nextId + 1), t)
         IN /\ nodes' = r.nodes
            /\ edges' = r.edges
            /\ selectedId' = r.selectedId
            /\ selectedType' = r.selectedType
            /\ now' = t
    /\ nextId' = nextId + 1
    /\ UNCHANGED <<settings, genVars, ioVars>>

addNode(parentId) == addNodeCall(parentId, MaxNewNodes)

\* Toolbar.handleAddRoot: the "+ root" button is disabled while a root exists.
AddRoot ==
    /\ ~hasRoot
    /\ addNode(Null)

\* TreeCanvas.handleNodeDoubleClick / PropertyPanel "add child": addNode(id)
\* of a node of the diagram.
AddChild ==
    \E i \in 1..Len(nodes) : addNode(nodes[i].id)

\* Mutant of deleteNodeKeepsEdge: only the edges leaving a deleted node are
\* removed.
deleteNodeKeepsEdgeSourceOnly(e, idsToDelete) ==
    e.sourceId \notin idsToDelete

\* deleteNode(id): cascade delete of id and all its descendants; the filter
\* it applies to the edges
deleteNodeKeepsEdge(e, idsToDelete) ==
    e.sourceId \notin idsToDelete /\ e.targetId \notin idsToDelete

deleteNode(id) ==
    LET idsToDelete == {id} \cup getDescendantIds(id, nodes)
    IN /\ nodes' = Filter(nodes, LAMBDA n : n.id \notin idsToDelete)
       /\ edges' = Filter(edges, LAMBDA e : deleteNodeKeepsEdge(e, idsToDelete))
       /\ selectedId' = IF selectedId \in idsToDelete THEN Null ELSE selectedId
       /\ selectedType' = IF selectedId \in idsToDelete THEN Null ELSE selectedType
       /\ UNCHANGED <<settings, now, nextId, genVars, ioVars>>

\* deleteEdge(id): the filter it applies to the edges
deleteEdgeKeepsEdge(e, idsToDelete) ==
    e.sourceId \notin idsToDelete /\ e.targetId \notin idsToDelete

\* deleteEdge(id): cascade delete of the edge's target node and descendants
deleteEdge(id) ==
    LET hits == FindById(edges, id)
    IN IF Len(hits) = 0
       THEN /\ selectedId' = IF selectedId = id THEN Null ELSE selectedId
            /\ selectedType' = IF selectedId = id THEN Null ELSE selectedType
            /\ UNCHANGED <<nodes, edges, settings, now, nextId, genVars, ioVars>>
       ELSE LET targetId == hits[1].targetId
                idsToDelete == {targetId} \cup getDescendantIds(targetId, nodes)
                drop == selectedId = id \/ selectedId \in idsToDelete
            IN /\ nodes' = Filter(nodes, LAMBDA n : n.id \notin idsToDelete)
               /\ edges' = Filter(edges, LAMBDA e :
                               deleteEdgeKeepsEdge(e, idsToDelete))
               /\ selectedId' = IF drop THEN Null ELSE selectedId
               /\ selectedType' = IF drop THEN Null ELSE selectedType
               /\ UNCHANGED <<settings, now, nextId, genVars, ioVars>>

\* An id that names no node and no edge.
GhostId == "ghost"

DeleteNode ==
    \E id \in Ids(nodes) \cup {GhostId} : deleteNode(id)

DeleteEdge ==
    \E id \in Ids(edges) \cup {GhostId} : deleteEdge(id)

\* setSelected(id, type), as the canvas calls it: a click on a node, on an
\* edge, or on the background.
setSelected(id, type) ==
    /\ selectedId' = id
    /\ selectedType' = type
    /\ UNCHANGED <<nodes, edges, settings, now, nextId, genVars, ioVars>>

SetSelected ==
    \/ \E id \in Ids(nodes) : setSelected(id, "node")
    \/ \E id \in Ids(edges) : setSelected(id, "edge")
    \/ setSelected(Null, Null)

\* Mutant of rotatePos: the positions are left as they are.
rotatePosIdentity(pos) == pos

\* rotatePos inside updateSettings: map[pos] || pos
rotatePos(pos) ==
    CASE pos = "left" -> "above"
      [] pos = "right" -> "below"
      [] pos = "above" -> "left"
      [] pos = "below" -> "right"
      [] OTHER -> pos

\* updateSettings(updates) applied to a state of the store: the settings,
\* nodes and edges it leaves; updates is a partial settings record
updateSettingsResult(ns, es, st, updates) ==
    LET has(f) == f \in DOMAIN updates
        newSettings == [f \in DOMAIN st |->
                          IF has(f) THEN updates[f] ELSE st[f]]
    IN IF has("direction") /\ updates.direction # st.direction
       THEN LET rootIds == {ns[i].id : i \in {j \in 1..Len(ns) :
                                               ns[j].parentId = Null}}
                newOffsetX == IF updates.direction = "horizontal" THEN -10 ELSE 0
                defaultOffset == IF updates.direction = "vertical" THEN 20 ELSE 15
                currentDefault == IF st.direction = "vertical" THEN 20 ELSE 15
            IN [settings |-> newSettings,
                edges |-> [i \in 1..Len(es) |->
                    IF es[i].sourceId \notin rootIds
                    THEN [es[i] EXCEPT !.labelPosition = rotatePos(@)]
                    ELSE [es[i] EXCEPT !.labelPosition = rotatePos(@),
                                       !.labelOffsetX = newOffsetX]],
                nodes |-> [i \in 1..Len(ns) |->
                    [ns[i] EXCEPT
                       !.labelPosition = rotatePos(@),
                       !.labelOffset = IF @ = currentDefault
                                       THEN defaultOffset ELSE @]]]
       ELSE [settings |-> newSettings, edges |-> es, nodes |-> ns]

\* updateSettings(updates) as the store update
updateSettings(updates) ==
    LET r == updateSettingsResult(nodes, edges, settings, updates)
    IN /\ settings' = r.settings
       /\ edges' = r.edges
       /\ nodes' = r.nodes
       /\ UNCHANGED <<selectedId, selectedType, now, nextId, genVars, ioVars>>

\* Toolbar.handleToggleDirection
ToggleDirection ==
    updateSettings([direction |->
        IF settings.direction = "vertical" THEN "horizontal" ELSE "vertical"])

\* setDiagram(nodes, edges)
setDiagram(ns, es) ==
    /\ nodes' = ns
    /\ edges' = es
    /\ UNCHANGED <<settings, selectedId, selectedType, now, nextId, genVars, ioVars>>

\* clearDiagram()
clearDiagram ==
    /\ nodes' = <<>>
    /\ edges' = <<>>
    /\ selectedId' = Null
    /\ selectedType' = Null
    /\ UNCHANGED <<settings, now, nextId, genVars, ioVars>>

\* TreeCanvas effect: load the sample diagram whenever the node list is empty
LoadSample ==
    /\ Len(nodes) = 0
    /\ setDiagram(SAMPLE_NODES, SAMPLE_EDGES)

GenIdle == [i |-> 0, current |-> Null, depth |-> 0, maxDepth |-> 0]

\* The export side before anything was rendered or exported
SceneNone == [bbox |-> [x |-> 0, y |-> 0, width |-> 0, height |-> 0],
              labels |-> <<>>, fos |-> <<>>, rendered |-> FALSE]

SvgNone == [done |-> FALSE,
            viewBox |-> [x |-> 0, y |-> 0, width |-> 0, height |-> 0],
            elements |-> <<>>, foreignObjects |-> <<>>]

\* ExportPanel and TikzOutput as mounted: useState(false), nothing started
ClipIdle == [pending |-> 0, copied |-> FALSE, uncaught |-> 0]

UiIdle == pngCalls = <<>> /\ isExporting = FALSE /\ clip = ClipIdle

\* parseLatex not called
ParseIdle == [input |-> <<>>, s |-> <<>>, i |-> 0, tokens |-> <<>>,
              done |-> FALSE]

IoIdle == scene = SceneNone /\ svgDoc = SvgNone /\ UiIdle /\ parse = ParseIdle

(***************************************************************************)
(* tree-layout.ts                                                          *)
(***************************************************************************)
\* Coordinates are integers in units of 1/Scale px; Scale is a power of two
\* larger than 2^(depth+1) for every depth the model reaches, so the halving
\* per level and the centering by totalWidth / 2 are exact, as they are in
\* IEEE doubles.
Scale == Pow2(MaxGenNodes + MaxNewNodes + 8)

\* buildTree: the root it returns, as the root's id (Null when there is
\* none). The loop overwrites root at every node whose parentId is null, so
\* the last such node wins.
buildTreeRoot(ns) ==
    LET roots == Filter(ns, LAMBDA n : n.parentId = Null)
    IN IF Len(roots) = 0 THEN Null ELSE roots[Len(roots)].id

\* Mutant of buildTreeChildren: the linking loop stops one node early and
\* leaves out a parent's last child.
buildTreeChildrenDropLast(ns, id) ==
    LET all == Filter(ns, LAMBDA n : n.parentId = id)
    IN IF Len(all) = 0 THEN all ELSE SubSeq(all, 1, Len(all) - 1)

\* buildTree: the children array of the node with this id, in the order of
\* the flat node list (parent.children.push in list order).
buildTreeChildren(ns, id) == Filter(ns, LAMBDA n : n.parentId = id)

\* Mutant of layoutNode: the sibling distance is not halved per level
\* (every level uses the full siblingDistance).
RECURSIVE layoutNodeNoHalving(_, _, _, _, _, _)
layoutNodeNoHalving(id, x, y, depth, st, ns) ==
    LET children == buildTreeChildren(ns, id)
        isHorizontal == st.direction = "horizontal"
        sibDist == st.siblingDistance * Scale
        totalWidth == (Len(children) - 1) * sibDist
        childPrimary == IF isHorizontal THEN x + st.levelDistance * Scale
                                        ELSE y + st.levelDistance * Scale
        parentSecondary == IF isHorizontal THEN y ELSE x
        startSecondary == parentSecondary - (totalWidth \div 2)
        childSecondary(i) == startSecondary + (i - 1) * sibDist
        childX(i) == IF isHorizontal THEN childPrimary ELSE childSecondary(i)
        childY(i) == IF isHorizontal THEN childSecondary(i) ELSE childPrimary
        RECURSIVE sub(_)
        sub(i) == IF i > Len(children) THEN <<>>
                  ELSE layoutNodeNoHalving(children[i].id, childX(i), childY(i),
                                           depth + 1, st, ns) \o sub(i + 1)
    IN <<[id |-> id, x |-> x, y |-> y]>> \o sub(1)

\* layoutNode: the positions pushed for the subtree of node id, in order.
RECURSIVE layoutNode(_, _, _, _, _, _)
layoutNode(id, x, y, depth, st, ns) ==
    LET children == buildTreeChildren(ns, id)
        isHorizontal == st.direction = "horizontal"
        sibDist == (st.siblingDistance * Scale) \div Pow2(depth)
        totalWidth == (Len(children) - 1) * sibDist
        childPrimary == IF isHorizontal THEN x + st.levelDistance * Scale
                                        ELSE y + st.levelDistance * Scale
        parentSecondary == IF isHorizontal THEN y ELSE x
        startSecondary == parentSecondary - (totalWidth \div 2)
        childSecondary(i) == startSecondary + (i - 1) * sibDist
        childX(i) == IF isHorizontal THEN childPrimary ELSE childSecondary(i)
        childY(i) == IF isHorizontal THEN childSecondary(i) ELSE childPrimary
        RECURSIVE sub(_)
        sub(i) == IF i > Len(children) THEN <<>>
                  ELSE layoutNode(children[i].id, childX(i), childY(i),
                                  depth + 1, st, ns) \o sub(i + 1)
    IN <<[id |-> id, x |-> x, y |-> y]>> \o sub(1)

\* computeTreeLayout(nodes, settings)
computeTreeLayout(ns, st) ==
    LET root == buildTreeRoot(ns)
        startX == IF st.direction = "horizontal" THEN 50 ELSE 400
        startY == IF st.direction = "horizontal" THEN 300 ELSE 50
    IN IF root = Null THEN <<>>
       ELSE layoutNode(root, startX * Scale, startY * Scale, 0, st, ns)

(***************************************************************************)
(* Inputs of the pure functions: arbitrary node lists with distinct ids,   *)
(* every parentId being null, the id of a listed node (itself included) or *)
(* an id that names no node; one edge per node with a parent.              *)
(***************************************************************************)
NodeName(i) == "n" \o ToString(i)

Patterns == 0..6

SiblingDistances == {200, 100}

GenLabelPosition(i, k) == NODE_LABEL_POSITIONS[((i + k) % 5) + 1]

GenNodes(n, par, k) ==
    [i \in 1..n |->
        [id |-> NodeName(i), parentId |-> par[i],
         label |-> IF (i + k) % 3 = 0 THEN "" ELSE "A",
         labelPosition |-> GenLabelPosition(i, k),
         labelOffset |-> IF (i + k) % 2 = 0 THEN 20 ELSE 15]]

GenEdges(ns, k) ==
    LET withParent == Filter(ns, LAMBDA n : n.parentId # Null)
    IN [j \in 1..Len(withParent) |->
        [id |-> "e-" \o withParent[j].id,
         sourceId |-> withParent[j].parentId,
         targetId |-> withParent[j].id,
         label |-> IF (j + k) % 3 = 1 THEN "" ELSE "0,4",
         labelPosition |-> EDGE_LABEL_POSITIONS[((j + k) % 4) + 1],
         labelOffsetX |-> IF (j + k) % 2 = 0 THEN 0 ELSE -10,
         labelOffsetY |-> IF (j + k) % 3 = 0 THEN 5 ELSE 0]]

GenParents(n) == {Null, GhostId} \cup {NodeName(i) : i \in 1..n}

GenSettings ==
    {[levelDistance |-> 120, siblingDistance |-> sd, direction |-> d] :
        sd \in SiblingDistances, d \in {"vertical", "horizontal"}}

InitGen ==
    /\ \/ \E n \in 0..MaxGenNodes : \E par \in [1..n -> GenParents(n)] :
            \E k \in Patterns :
               /\ nodes = GenNodes(n, par, k)
               /\ edges = GenEdges(nodes, k)
       \/ /\ nodes = SAMPLE_NODES
          /\ edges = SAMPLE_EDGES
    /\ settings \in GenSettings
    /\ selectedId = Null
    /\ selectedType = Null
    /\ now = 0
    /\ nextId = 0
    /\ pc = "layout"
    /\ positions = <<>>
    /\ out = <<>>
    /\ gmd = GenIdle
    /\ IoIdle

\* the canvas' useTreeLayout: computeTreeLayout(nodes, settings)
ComputeTreeLayout ==
    /\ pc = "layout"
    /\ positions' = computeTreeLayout(nodes, settings)
    /\ pc' = "tikz"
    /\ UNCHANGED <<storeVars, ioVars, out, gmd>>


(***************************************************************************)
(* tikz-generator.ts                                                       *)
(*                                                                         *)
(* The generated string is modelled line by line. A line is a record       *)
(*   kind   the statement: "\\node" / "node" (a node statement),           *)
(*          "child {" / "}" (a child block), "edge from parent node" (an   *)
(*          edge label annotation), "level" (a level style), ...           *)
(*   style  of a node statement: "dot" or "fill=white,rectangle"           *)
(*   id     the node (or edge) the line is emitted for                     *)
(*   indent the indentation, in units of 4 spaces                          *)
(*   pos    the label position keyword (node) or the anchor (edge label)   *)
(*   axis   "xshift" / "yshift" of a node label's shift, Null when absent  *)
(*   x, y   numbers: the shift in pt; of a level style, the sibling and    *)
(*          level distance in tenths of a cm, as toFixed(1) prints them    *)
(*   level  the level number of a level style                              *)
(***************************************************************************)
Line(kind) ==
    [kind |-> kind, style |-> Null, id |-> Null, indent |-> 0, pos |-> Null,
     axis |-> Null, x |-> 0, y |-> 0, level |-> 0]

\* HORIZONTAL_POSITION_MAP[position] || position
HORIZONTAL_POSITION_MAP(position) ==
    CASE position = "left" -> "above"
      [] position = "right" -> "below"
      [] position = "above" -> "left"
      [] position = "below" -> "right"
      [] OTHER -> position

\* pxToCm: (px / 40).toFixed(1) for px = num / den, as the number of tenths
\* of a cm printed. toFixed rounds the exact value of the double to the
\* nearest tenth, a tie going to the larger one; px / 40 is an exact double
\* whenever px is a multiple of 5 divided by a power of two, which holds for
\* every distance of the model.
pxToCm(num, den) == (num + 2 * den) \div (4 * den)

\* generateStyles(settings, maxDepth)
generateStyles(st, maxDepth) ==
    <<Line("dot/.style")>>
    \o (IF st.direction = "horizontal" THEN <<Line("grow=right")>> ELSE <<>>)
    \o [i \in 1..maxDepth |->
          [Line("level") EXCEPT
             !.level = i,
             !.x = pxToCm(st.siblingDistance, Pow2(i - 1)),
             !.y = pxToCm(st.levelDistance, 1)]]
    \o <<Line("edge from parent/.style")>>

\* Mutant of formatLabel: the position is not rotated in horizontal mode.
formatLabelNoRotation(label, position, labelOffset, isHorizontal) ==
    IF label = "" THEN [present |-> FALSE, pos |-> Null, axis |-> Null, shift |-> 0]
    ELSE LET pos == position
             distPt == (2 * labelOffset + 3) \div 6
             shiftAxis == IF pos \in {"left", "right"} THEN "xshift" ELSE "yshift"
             signed == IF pos \in {"above", "right"} THEN distPt ELSE -distPt
         IN [present |-> TRUE, pos |-> pos,
             axis |-> IF distPt # 5 THEN shiftAxis ELSE Null,
             shift |-> IF distPt # 5 THEN signed ELSE 0]

\* formatLabel(label, position, labelOffset, isHorizontal): the label
\* annotation ", label={[shift]pos:{$label$}}", or nothing for an empty label.
\* distPt = Math.round(labelOffset / 3).
formatLabel(label, position, labelOffset, isHorizontal) ==
    IF label = "" THEN [present |-> FALSE, pos |-> Null, axis |-> Null, shift |-> 0]
    ELSE LET pos == IF isHorizontal THEN HORIZONTAL_POSITION_MAP(position)
                                    ELSE position
             distPt == (2 * labelOffset + 3) \div 6
             shiftAxis == IF pos \in {"left", "right"} THEN "xshift" ELSE "yshift"
             signed == IF pos \in {"above", "right"} THEN distPt ELSE -distPt
         IN [present |-> TRUE, pos |-> pos,
             axis |-> IF distPt # 5 THEN shiftAxis ELSE Null,
             shift |-> IF distPt # 5 THEN signed ELSE 0]

\* EDGE_LABEL_DIRS[pos].anchor, with the fallback EDGE_LABEL_DIRS.left
EDGE_LABEL_DIRS(pos) ==
    CASE pos = "above" -> "south"
      [] pos = "below" -> "north"
      [] pos = "left" -> "east"
      [] pos = "right" -> "west"
      [] OTHER -> "east"

\* generateEdgeLabel(edge, isHorizontal): the line
\* "edge from parent node[pos=0.5,sloped=false,anchor=..,xshift=..pt,yshift=..pt]"
\* or nothing for an empty label. xPt = Math.round(labelOffsetX * 0.6),
\* yPt = -Math.round(labelOffsetY * 0.6).
generateEdgeLabel(edge, isHorizontal) ==
    IF edge.label = "" THEN <<>>
    ELSE LET pos == IF isHorizontal
                    THEN HORIZONTAL_POSITION_MAP(edge.labelPosition)
                    ELSE edge.labelPosition
             xPt == (6 * edge.labelOffsetX + 5) \div 10
             yPt == -((6 * edge.labelOffsetY + 5) \div 10)
         IN <<[Line("edge from parent node") EXCEPT
                 !.id = edge.id, !.pos = EDGE_LABEL_DIRS(pos),
                 !.x = xPt, !.y = yPt]>>

\* edgeMap.get(id) of new Map(edges.map(e => [e.targetId, e])): the last
\* edge with that targetId, as a sequence of at most one edge
edgeMapGet(es, id) ==
    LET hits == Filter(es, LAMBDA e : e.targetId = id)
    IN IF Len(hits) = 0 THEN <<>> ELSE <<hits[Len(hits)]>>

\* Mutant of childBlock: the closing brace of the child block is not written.
childBlockUnclosed(childStr, edgeLabel, depth) ==
    <<[Line("child {") EXCEPT !.indent = depth + 1]>>
    \o childStr
    \o [i \in 1..Len(edgeLabel) |-> [edgeLabel[i] EXCEPT !.indent = depth + 2]]

\* generateNode, the block written for one child:
\*     child {
\*         <childStr>
\*         <edgeLabel>
\*     }
childBlock(childStr, edgeLabel, depth) ==
    <<[Line("child {") EXCEPT !.indent = depth + 1]>>
    \o childStr
    \o [i \in 1..Len(edgeLabel) |-> [edgeLabel[i] EXCEPT !.indent = depth + 2]]
    \o <<[Line("}") EXCEPT !.indent = depth + 1]>>

\* generateNode, the node statement itself
nodeStatement(node, depth, isRoot, isHorizontal) ==
    LET isCenterLabel == node.labelPosition = "center"
        label == IF ~isCenterLabel
                 THEN formatLabel(node.label, node.labelPosition,
                                  node.labelOffset, isHorizontal)
                 ELSE formatLabel("", node.labelPosition, node.labelOffset,
                                  isHorizontal)
        nodeCmd == IF isRoot THEN "\\node" ELSE "node"
    IN IF isCenterLabel /\ node.label # ""
       THEN [Line(nodeCmd) EXCEPT !.style = "fill=white,rectangle",
                                  !.id = node.id, !.indent = depth]
       ELSE [Line(nodeCmd) EXCEPT !.style = "dot", !.id = node.id,
                                  !.indent = depth, !.pos = label.pos,
                                  !.axis = label.axis, !.x = label.shift]

\* generateNode(node, allNodes, edgeMap, depth, isRoot, isHorizontal)
RECURSIVE generateNode(_, _, _, _, _, _)
generateNode(node, allNodes, es, depth, isRoot, isHorizontal) ==
    LET childNodes == Filter(allNodes, LAMBDA n : n.parentId = node.id)
        children == IF isHorizontal THEN Reverse(childNodes) ELSE childNodes
        RECURSIVE blocks(_)
        blocks(i) ==
            IF i > Len(children) THEN <<>>
            ELSE LET child == children[i]
                     edge == edgeMapGet(es, child.id)
                     childStr == generateNode(child, allNodes, es, depth + 2,
                                              FALSE, isHorizontal)
                     edgeLabel == IF Len(edge) > 0
                                  THEN generateEdgeLabel(edge[1], isHorizontal)
                                  ELSE <<>>
                 IN childBlock(childStr, edgeLabel, depth) \o blocks(i + 1)
    IN <<nodeStatement(node, depth, isRoot, isHorizontal)>> \o blocks(1)

\* generateTikZ: the output for an empty node list and for a missing root
NoTreeOutput ==
    <<Line("% No tree to export"), Line("\\begin{tikzpicture}"),
      Line("\\end{tikzpicture}")>>

NoRootOutput ==
    <<Line("% No root node found"), Line("\\begin{tikzpicture}"),
      Line("\\end{tikzpicture}")>>

\* generateTikZ: nodes.find(n => n.parentId === null), the first such node
findRoot(ns) == Filter(ns, LAMBDA n : n.parentId = Null)

\* generateTikZ: the string returned once maxDepth is known
tikzOutput(ns, es, st, maxDepth) ==
    <<Line("\\begin{tikzpicture}[")>>
    \o generateStyles(st, maxDepth)
    \o <<Line("]")>>
    \o generateNode(findRoot(ns)[1], ns, es, 0, TRUE,
                    st.direction = "horizontal")
    \o <<Line(";"), Line("\\end{tikzpicture}")>>

(***************************************************************************)
(* generateTikZ as a process: pc follows the control flow, and getMaxDepth *)
(* is run loop iteration by loop iteration (gmd holds its locals: the      *)
(* index i of the for loop, the id of `current` (Null for undefined),      *)
(* depth and maxDepth).                                                    *)
(***************************************************************************)
\* generateTikZ up to the call of getMaxDepth
GenerateTikZ ==
    /\ pc = "tikz"
    /\ IF Len(nodes) = 0
       THEN out' = NoTreeOutput /\ pc' = "done" /\ gmd' = gmd
       ELSE IF Len(findRoot(nodes)) = 0
       THEN out' = NoRootOutput /\ pc' = "done" /\ gmd' = gmd
       ELSE /\ pc' = "for"
            /\ gmd' = [i |-> 1, current |-> Null, depth |-> 0, maxDepth |-> 0]
            /\ out' = out
    /\ UNCHANGED <<storeVars, ioVars, positions>>

\* getMaxDepth: for (const node of nodes) { let depth = 0; let current = node;
GetMaxDepthFor ==
    /\ pc = "for"
    /\ IF gmd.i > Len(nodes)
       THEN pc' = "emit" /\ gmd' = gmd
       ELSE /\ pc' = "while"
            /\ gmd' = [gmd EXCEPT !.current = nodes[gmd.i].id, !.depth = 0]
    /\ UNCHANGED <<storeVars, ioVars, positions, out>>

\* The depth counter grows without bound in a loop that never exits. A chain
\* that ends has at most Len(nodes) hops, so the model counts exactly up to
\* DepthCap and keeps only the parity of the counter above it: every turn of
\* the loop is still a step that changes the state.
DepthCap == Len(nodes) + 1

\* getMaxDepth: while (current?.parentId) { depth++; current = nodeMap.get(..) }
\* and, on leaving the loop, maxDepth = Math.max(maxDepth, depth)
GetMaxDepthWhile ==
    /\ pc = "while"
    /\ LET cur == FindById(nodes, gmd.current)
       IN IF Len(cur) > 0 /\ cur[1].parentId # Null
          THEN /\ gmd' = [gmd EXCEPT
                     !.depth = IF @ < DepthCap + 1 THEN @ + 1 ELSE DepthCap,
                     !.current = IF Len(FindById(nodes, cur[1].parentId)) > 0
                                 THEN cur[1].parentId ELSE Null]
               /\ pc' = pc
          ELSE /\ gmd' = [gmd EXCEPT !.maxDepth = Max2(@, gmd.depth),
                                     !.i = @ + 1, !.current = Null]
               /\ pc' = "for"
    /\ UNCHANGED <<storeVars, ioVars, positions, out>>

\* generateTikZ after getMaxDepth has returned
GenerateTikZEmit ==
    /\ pc = "emit"
    /\ out' = tikzOutput(nodes, edges, settings, gmd.maxDepth)
    /\ pc' = "done"
    /\ UNCHANGED <<storeVars, ioVars, positions, gmd>>

NextGen ==
    \/ ComputeTreeLayout
    \/ GenerateTikZ
    \/ GetMaxDepthFor
    \/ GetMaxDepthWhile
    \/ GenerateTikZEmit

SpecGen == InitGen /\ [][NextGen]_vars

\* generateTikZ is synchronous code of a single thread: once called it keeps
\* running, so no step of it is postponed forever
FairSpecGen == SpecGen /\ WF_vars(NextGen)



(***************************************************************************)
(* latex-to-native-svg-text.ts: the label parser. A JavaScript string is   *)
(* a sequence of one-character strings; positions are 0-based as in the    *)
(* source (s[i] is CharAt(s, i)), and s[i] past the end is undefined.      *)
(***************************************************************************)
Undefined == "undefined"

CharAt(s, i) == IF i >= 0 /\ i < Len(s) THEN s[i + 1] ELSE Undefined

\* String.prototype.slice(a, b) for 0 <= a, b
Slice(s, a, b) ==
    LET hi == IF b < Len(s) THEN b ELSE Len(s)
    IN IF hi <= a THEN <<>> ELSE SubSeq(s, a + 1, hi)

\* s.slice(i).startsWith(cmd)
StartsWith(s, i, cmd) ==
    /\ i + Len(cmd) <= Len(s)
    /\ \A k \in 1..Len(cmd) : s[i + k] = cmd[k]

\* String.prototype.trim()
RECURSIVE TrimStart(_)
TrimStart(s) ==
    IF Len(s) > 0 /\ s[1] = " " THEN TrimStart(Tail(s)) ELSE s

RECURSIVE TrimEnd(_)
TrimEnd(s) ==
    IF Len(s) > 0 /\ s[Len(s)] = " "
    THEN TrimEnd(SubSeq(s, 1, Len(s) - 1)) ELSE s

Trim(s) == TrimEnd(TrimStart(s))

\* /[a-zA-Z]/ on the characters the model uses
Letters ==
    {"a", "b", "c", "d", "e", "f", "i", "l", "n", "o", "q", "r", "s", "t",
     "v", "x", "A", "B"}

CMD_DFRAC == <<"\\", "d", "f", "r", "a", "c">>
CMD_FRAC == <<"\\", "f", "r", "a", "c">>
CMD_OVERLINE == <<"\\", "o", "v", "e", "r", "l", "i", "n", "e">>
CMD_BAR == <<"\\", "b", "a", "r">>
CMD_TEXT == <<"\\", "t", "e", "x", "t">>
CMD_SQRT == <<"\\", "s", "q", "r", "t">>

Token(type) == [type |-> type, value |-> <<>>, num |-> <<>>, den |-> <<>>]

\* while (j < s.length && depth > 0) { ... j++ } of braceContent
RECURSIVE braceScan(_, _, _)
braceScan(s, j, depth) ==
    IF j < Len(s) /\ depth > 0
    THEN braceScan(s, j + 1,
                   IF CharAt(s, j) = "{" THEN depth + 1
                   ELSE IF CharAt(s, j) = "}" THEN depth - 1 ELSE depth)
    ELSE j

\* Mutant of braceContent: the nesting depth is not tracked, the scan stops
\* at the first closing brace.
braceContentFirstClose(s, start) ==
    IF CharAt(s, start) # "{" THEN [content |-> <<>>, after |-> start]
    ELSE LET closes == {j \in (start + 1)..(Len(s) - 1) : CharAt(s, j) = "}"}
             j == IF closes = {} THEN Len(s)
                  ELSE (CHOOSE c \in closes : \A d \in closes : c <= d) + 1
         IN [content |-> Slice(s, start + 1, j - 1), after |-> j]

\* braceContent(s, start): [content, index after the closing brace]
braceContent(s, start) ==
    IF CharAt(s, start) # "{" THEN [content |-> <<>>, after |-> start]
    ELSE LET j == braceScan(s, start + 1, 1)
         IN [content |-> Slice(s, start + 1, j - 1), after |-> j]

\* while (j < s.length && /[a-zA-Z]/.test(s[j])) j++
RECURSIVE letterScan(_, _)
letterScan(s, j) ==
    IF j < Len(s) /\ CharAt(s, j) \in Letters THEN letterScan(s, j + 1) ELSE j

\* while (j < s.length && !'\\{}_^'.includes(s[j])) j++
RECURSIVE plainScan(_, _)
plainScan(s, j) ==
    IF j < Len(s) /\ CharAt(s, j) \notin {"\\", "{", "}", "_", "^"}
    THEN plainScan(s, j + 1) ELSE j

\* One turn of parseLatex's while loop at position i of the trimmed string:
\* the tokens it pushes and the next value of i.
parseLatexStep(s, i) ==
    IF CharAt(s, i) = "\\" THEN
       IF StartsWith(s, i, CMD_DFRAC) \/ StartsWith(s, i, CMD_FRAC) THEN
          LET cmdLen == IF StartsWith(s, i, CMD_DFRAC) THEN 6 ELSE 5
              n == braceContent(s, i + cmdLen)
              d == braceContent(s, n.after)
          IN [push |-> <<[Token("frac") EXCEPT !.num = n.content,
                                               !.den = d.content]>>,
              i |-> d.after]
       ELSE IF StartsWith(s, i, CMD_OVERLINE) THEN
          LET v == braceContent(s, i + 9)
          IN [push |-> <<[Token("overline") EXCEPT !.value = v.content]>>,
              i |-> v.after]
       ELSE IF StartsWith(s, i, CMD_BAR) THEN
          LET v == braceContent(s, i + 4)
          IN [push |-> <<[Token("bar") EXCEPT !.value = v.content]>>,
              i |-> v.after]
       ELSE IF StartsWith(s, i, CMD_TEXT) THEN
          LET v == braceContent(s, i + 5)
          IN [push |-> <<[Token("text") EXCEPT !.value = v.content]>>,
              i |-> v.after]
       ELSE IF StartsWith(s, i, CMD_SQRT) THEN
          LET v == braceContent(s, i + 5)
          IN [push |-> <<[Token("sqrt") EXCEPT !.value = v.content]>>,
              i |-> v.after]
       ELSE LET j == letterScan(s, i + 1)
            IN [push |-> <<[Token("text") EXCEPT !.value = Slice(s, i, j)]>>,
                i |-> j]
    ELSE IF CharAt(s, i) \in {"{", "}"} THEN [push |-> <<>>, i |-> i + 1]
    ELSE IF CharAt(s, i) \in {"_", "^"} THEN
       IF i + 1 < Len(s) /\ CharAt(s, i + 1) = "{" THEN
          LET v == braceContent(s, i + 1)
          IN [push |-> <<[Token("text") EXCEPT !.value = v.content]>>,
              i |-> v.after]
       ELSE IF i + 1 < Len(s) THEN
          [push |-> <<[Token("text") EXCEPT !.value = <<CharAt(s, i + 1)>>]>>,
           i |-> i + 2]
       ELSE [push |-> <<>>, i |-> i + 1]
    ELSE LET j == plainScan(s, i)
         IN [push |-> <<[Token("text") EXCEPT !.value = Slice(s, i, j)]>>,
             i |-> j]

\* parseLatex(input) as a function: the loop run until i reaches s.length,
\* with a budget of turns (every turn of the loop is counted)
RECURSIVE parseLatexFrom(_, _, _)
parseLatexFrom(s, i, fuel) ==
    IF i < Len(s) /\ fuel > 0
    THEN LET st == parseLatexStep(s, i)
         IN st.push \o parseLatexFrom(s, st.i, fuel - 1)
    ELSE <<>>

parseLatex(input) == parseLatexFrom(Trim(input), 0, Len(input) + 1)


(***************************************************************************)
(* tree-canvas.tsx: the position at which the canvas renders a label. The  *)
(* stored labelPosition is handed to LatexLabel as it is ("label positions *)
(* are already rotated in store when direction changes").                  *)
(***************************************************************************)
canvasNodeLabelPos(node) == node.labelPosition

canvasEdgeLabelPos(edge) == edge.labelPosition

\* The vertical displacement the canvas adds to the midpoint of the edge for
\* its label, in SVG coordinates (y grows downward):
\* labelOffsetY = -(rawOffsetY) + (isHoriz ? hCorrection : 0), y = midY + it
canvasEdgeLabelDy(edge, isHoriz) ==
    LET hCorrection == CASE edge.labelPosition = "above" -> -5
                         [] edge.labelPosition = "below" -> 5
                         [] OTHER -> 0
    IN -(edge.labelOffsetY) + (IF isHoriz THEN hCorrection ELSE 0)

\* tree-node.tsx: a center node gets a transparent hit rectangle, every
\* other node its colored circle
canvasDrawsMarker(node) == node.labelPosition # "center"

(***************************************************************************)
(* latex-label.tsx: the foreignObject the canvas renders for a label, with *)
(* the data-* attributes the exporters read. An attribute is a sequence of *)
(* zero or one value (getAttribute returns null for a missing one), a text *)
(* is a sequence of characters; coordinates are whole pixels.              *)
(***************************************************************************)
POSITION_DIRS(position) ==
    CASE position = "above" -> [dx |-> 0, dy |-> -1, anchor |-> "middle"]
      [] position = "below" -> [dx |-> 0, dy |-> 1, anchor |-> "middle"]
      [] position = "left" -> [dx |-> -1, dy |-> 0, anchor |-> "end"]
      [] position = "right" -> [dx |-> 1, dy |-> 0, anchor |-> "start"]
      [] position = "center" -> [dx |-> 0, dy |-> 0, anchor |-> "middle"]

\* LatexLabel({text, x, y, position, labelOffset}): no element for an empty
\* text, else one foreignObject
LatexLabel(l) ==
    LET dir == POSITION_DIRS(l.position)
        dist == IF l.position = "center" THEN 0 ELSE l.labelOffset
        dx == dir.dx * dist
        dy == dir.dy * dist
        sideways == l.position \in {"left", "right", "center"}
        contentFoX == IF dir.anchor = "end" THEN l.x + dx - 80
                      ELSE IF dir.anchor = "start" THEN l.x + dx
                      ELSE l.x + dx - 40
        contentFoY == IF sideways THEN l.y - 15 ELSE l.y + dy - 10
    IN IF l.text = <<>> THEN <<>>
       ELSE <<[originalText |-> l.text,
               textAlign |-> <<IF dir.anchor = "end" THEN "right"
                               ELSE IF dir.anchor = "start" THEN "left"
                               ELSE "center">>,
               contentX |-> <<contentFoX>>,
               contentY |-> <<contentFoY>>,
               labelPosition |-> <<l.position>>]>>

\* a foreignObject that carries none of the data-* attributes
BareForeignObject ==
    [originalText |-> <<>>, textAlign |-> <<>>, contentX |-> <<>>,
     contentY |-> <<>>, labelPosition |-> <<>>]

\* fo.getAttribute(name) || dflt
AttrOr(attr, dflt) == IF attr = <<>> THEN dflt ELSE attr[1]

(***************************************************************************)
(* latex-to-native-svg-text.ts: the native SVG element built for a label.  *)
(* An element is [tag, children, halo, rect]: children are the tags of the *)
(* elements inside a <g>, halo says whether the text is painted with a     *)
(* white stroke, rect holds the background rectangle if there is one       *)
(* (x2, y2 are twice the x and y attributes, which may be half pixels).    *)
(***************************************************************************)
CHAR_WIDTH == 7

Element(tag) == [tag |-> tag, children |-> <<>>, halo |-> FALSE, rect |-> <<>>]

\* getTextAnchor(labelPosition)
getTextAnchor(labelPosition) ==
    IF labelPosition = "right" THEN "start"
    ELSE IF labelPosition = "left" THEN "end" ELSE "middle"

\* tokenWidth(tok)
tokenWidth(tok) ==
    IF tok.type = "frac"
    THEN Max2(Len(tok.num), Len(tok.den)) * CHAR_WIDTH + 4
    ELSE IF tok.type \in {"overline", "bar"} THEN Len(tok.value) * CHAR_WIDTH + 2
    ELSE IF tok.type = "sqrt" THEN Len(tok.value) * CHAR_WIDTH + 10
    ELSE Len(tok.value) * CHAR_WIDTH

RECURSIVE SumWidths(_)
SumWidths(tokens) ==
    IF tokens = <<>> THEN 0 ELSE tokenWidth(Head(tokens)) + SumWidths(Tail(tokens))

\* the elements appended to the group for one token
tokenElements(tok) ==
    CASE tok.type = "text" -> <<"text">>
      [] tok.type = "frac" -> <<"text", "line", "text">>
      [] tok.type = "overline" -> <<"text", "line">>
      [] tok.type = "bar" -> <<"text">>
      [] tok.type = "sqrt" -> <<"path", "text">>

RECURSIVE groupChildren(_)
groupChildren(tokens) ==
    IF tokens = <<>> THEN <<>>
    ELSE tokenElements(Head(tokens)) \o groupChildren(Tail(tokens))

\* latex.match(/^\\text\s*\{(.+)\}$/): the captured group, or <<>> if the
\* text does not match
RECURSIVE skipSpaces(_, _)
skipSpaces(s, i) == IF CharAt(s, i) = " " THEN skipSpaces(s, i + 1) ELSE i

textMatch(latex) ==
    LET open == skipSpaces(latex, 5)
    IN IF /\ StartsWith(latex, 0, CMD_TEXT)
          /\ CharAt(latex, open) = "{"
          /\ CharAt(latex, Len(latex) - 1) = "}"
          /\ Len(latex) - 1 > open + 1
       THEN Slice(latex, open + 1, Len(latex) - 1)
       ELSE <<>>

\* s.includes('\\\\')
includesDoubleBackslash(s) ==
    \E i \in 0..(Len(s) - 2) : CharAt(s, i) = "\\" /\ CharAt(s, i + 1) = "\\"

\* s.split('\\\\').map(l => l.trim())
RECURSIVE splitLines(_, _)
splitLines(s, cur) ==
    IF s = <<>> THEN <<Trim(cur)>>
    ELSE IF Len(s) >= 2 /\ s[1] = "\\" /\ s[2] = "\\"
         THEN <<Trim(cur)>> \o splitLines(SubSeq(s, 3, Len(s)), <<>>)
         ELSE splitLines(Tail(s), Append(cur, s[1]))

RECURSIVE MaxLen(_)
MaxLen(lines) ==
    IF lines = <<>> THEN 0 ELSE Max2(Len(Head(lines)), MaxLen(Tail(lines)))

\* createMultilineSvgLabel(doc, lines, cx, cy, labelPosition)
createMultilineSvgLabel(lines, cx, cy, labelPosition) ==
    LET lineHeight == 18
        totalHeight == Len(lines) * lineHeight
        maxWidth == MaxLen(lines) * CHAR_WIDTH
        texts == [i \in 1..Len(lines) |-> "text"]
    IN IF labelPosition = "center"
       THEN [Element("g") EXCEPT
               !.children = <<"rect">> \o texts,
               !.rect = <<[x2 |-> 2 * cx - maxWidth - 8,
                           y2 |-> 2 * cy - totalHeight - 6,
                           width |-> maxWidth + 8,
                           height |-> totalHeight + 6,
                           fill |-> "white"]>>]
       ELSE [Element("g") EXCEPT !.children = texts]

\* createSvgLabelElement(doc, latex, cx, cy, labelPosition)
createSvgLabelElement(latex, cx, cy, labelPosition) ==
    LET inner == textMatch(latex)
        tokens == parseLatex(latex)
        anchor == getTextAnchor(labelPosition)
        single == Len(tokens) = 1
        content == IF single /\ tokens[1].type = "text" THEN tokens[1].value
                   ELSE IF single /\ tokens[1].type = "bar"
                        THEN Append(tokens[1].value, "macron")
                        ELSE <<>>
        totalW == SumWidths(tokens)
        startX2 == IF anchor = "end" THEN 2 * (cx - totalW)
                   ELSE IF anchor = "start" THEN 2 * cx
                   ELSE 2 * cx - totalW
    IN IF inner # <<>> /\ includesDoubleBackslash(inner)
       THEN createMultilineSvgLabel(splitLines(inner, <<>>), cx, cy, labelPosition)
       ELSE IF single /\ content # <<>>
       THEN [Element("text") EXCEPT !.halo = (labelPosition = "center")]
       ELSE IF labelPosition = "center"
       THEN [Element("g") EXCEPT
               !.children = <<"rect">> \o groupChildren(tokens),
               !.rect = <<[x2 |-> startX2 - 6, y2 |-> 2 * (cy - 12),
                           width |-> totalW + 6, height |-> 24,
                           fill |-> "white"]>>]
       ELSE [Element("g") EXCEPT !.children = groupChildren(tokens)]


(***************************************************************************)
(* export-svg: exportSvg(svgElement). The scene is the canvas' <svg>: the  *)
(* bounding box getBBox() reports for its main group and the foreignObject *)
(* elements of the labels. The result is the serialized clone: its viewBox,*)
(* the label elements appended to it (each with the label it was built     *)
(* for) and the foreignObject elements still in it.                        *)
(***************************************************************************)
SVG_PADDING == 40

SVG_BOTTOM_PADDING == 60

\* Mutant of foBounds: the labels are left out of the bounds.
foBoundsGroupOnly(b, fo) == b

\* labelFOs.forEach: expand the bounds by one label's 80 x 30 box
foBounds(b, fo) ==
    LET cx == AttrOr(fo.contentX, 0)
        cy == AttrOr(fo.contentY, 0)
    IN [minX |-> IF cx < b.minX THEN cx ELSE b.minX,
        minY |-> IF cy < b.minY THEN cy ELSE b.minY,
        maxX |-> Max2(b.maxX, cx + 80),
        maxY |-> Max2(b.maxY, cy + 30)]

RECURSIVE sceneBounds(_, _)
sceneBounds(b, fos) ==
    IF fos = <<>> THEN b ELSE sceneBounds(foBounds(b, Head(fos)), Tail(fos))

\* Mutant of exportFo: only a foreignObject with a text is removed.
exportFoKeepsEmpty(fo) ==
    [append |-> <<>>, removed |-> fo.originalText # <<>>]

\* foreignObjects.forEach: the element appended for one foreignObject and
\* whether the foreignObject is removed from the clone
exportFo(fo) ==
    LET originalText == fo.originalText
        contentX == AttrOr(fo.contentX, 0)
        contentY == AttrOr(fo.contentY, 0)
        textAlign == AttrOr(fo.textAlign, "center")
        labelPosition == AttrOr(fo.labelPosition, "")
        cx == IF textAlign = "right" THEN contentX + 80
              ELSE IF textAlign = "left" THEN contentX ELSE contentX + 40
        cy == IF labelPosition \in {"left", "right", "center"}
              THEN contentY + 15 ELSE contentY + 5
    IN [append |->
          IF originalText # <<>>
          THEN <<[text |-> originalText, labelPosition |-> labelPosition,
                  el |-> createSvgLabelElement(originalText, cx, cy,
                                               labelPosition)]>>
          ELSE <<>>,
        removed |-> TRUE]

RECURSIVE exportFos(_)
exportFos(fos) ==
    IF fos = <<>> THEN [elements |-> <<>>, left |-> <<>>]
    ELSE LET r == exportFo(Head(fos))
             rest == exportFos(Tail(fos))
         IN [elements |-> r.append \o rest.elements,
             left |-> (IF r.removed THEN <<>> ELSE <<Head(fos)>>) \o rest.left]

exportSvg(sc) ==
    LET bbox == sc.bbox
        b == sceneBounds([minX |-> bbox.x, minY |-> bbox.y,
                          maxX |-> bbox.x + bbox.width,
                          maxY |-> bbox.y + bbox.height], sc.fos)
        width == (b.maxX - b.minX) + SVG_PADDING * 2
        height == (b.maxY - b.minY) + SVG_PADDING + SVG_BOTTOM_PADDING
        r == exportFos(sc.fos)
    IN [done |-> TRUE,
        viewBox |-> [x |-> b.minX - SVG_PADDING, y |-> b.minY - SVG_PADDING,
                     width |-> width, height |-> height],
        elements |-> r.elements,
        foreignObjects |-> r.left]

(***************************************************************************)
(* The scenes the exporter is run on: up to MaxLabels labels drawn from a  *)
(* few texts, the five positions and two anchor points, optionally one     *)
(* foreignObject without attributes, and a bounding box of the main group  *)
(* (the second one is the fallback DOMRect(0, 0, 800, 600)).               *)
(***************************************************************************)
TEXT_A == <<"A">>

TEXT_OVERLINE_A == CMD_OVERLINE \o <<"{", "A", "}">>

TEXT_MULTILINE == CMD_TEXT \o <<"{", "A", "\\", "\\", "B", "}">>

SvgTexts == {<<>>, TEXT_A, TEXT_OVERLINE_A, TEXT_MULTILINE}

SvgLabels ==
    {[text |-> t, x |-> a.x, y |-> a.y, position |-> p, labelOffset |-> a.off] :
        t \in SvgTexts, p \in Range(NODE_LABEL_POSITIONS),
        a \in {[x |-> 400, y |-> 50, off |-> 30],
               [x |-> 300, y |-> 170, off |-> 20]}}

SvgBBoxes ==
    {[x |-> 295, y |-> 45, width |-> 210, height |-> 130],
     [x |-> 0, y |-> 0, width |-> 800, height |-> 600]}

RECURSIVE renderLabels(_)
renderLabels(labels) ==
    IF labels = <<>> THEN <<>>
    ELSE LatexLabel(Head(labels)) \o renderLabels(Tail(labels))

InitSvg ==
    /\ nodes = <<>> /\ edges = <<>> /\ settings = DEFAULT_SETTINGS
    /\ selectedId = Null /\ selectedType = Null /\ now = 0 /\ nextId = 0
    /\ pc = "idle" /\ positions = <<>> /\ out = <<>> /\ gmd = GenIdle
    /\ \E n \in 0..MaxLabels : \E ls \in [1..n -> SvgLabels] :
         \E bb \in SvgBBoxes :
            scene = [SceneNone EXCEPT !.bbox = bb, !.labels = ls]
    /\ svgDoc = SvgNone
    /\ UiIdle
    /\ parse = ParseIdle

\* the canvas renders the labels, with or without a stray foreignObject
RenderScene ==
    /\ ~scene.rendered
    /\ \E stray \in {<<>>, <<BareForeignObject>>} :
         scene' = [scene EXCEPT !.rendered = TRUE,
                                !.fos = renderLabels(scene.labels) \o stray]
    /\ UNCHANGED <<storeVars, genVars, uiVars, parse, svgDoc>>

\* the SVG button: exportSvg(svgRef.current)
ExportSvg ==
    /\ scene.rendered
    /\ ~svgDoc.done
    /\ svgDoc' = exportSvg(scene)
    /\ UNCHANGED <<storeVars, genVars, uiVars, parse, scene>>

NextSvg == RenderScene \/ ExportSvg

SpecSvg == InitSvg /\ [][NextSvg]_vars


(***************************************************************************)
(* export-png.ts and export-panel.tsx: the raster export. Every call of    *)
(* exportPng is a record: where the call stands, the URI handed to the     *)
(* offscreen image, how often a load, a draw and a download happened, the  *)
(* message of the error it rejected with, and where the calling handler    *)
(* (handleExportPng) stands. The browser decides whether the image loads,  *)
(* whether a 2D context exists and whether toBlob yields a blob.           *)
(***************************************************************************)
ERR_CONTEXT == "Failed to get canvas context"

ERR_LOAD == "Failed to load SVG as image"

\* exportPng up to `img.src = svgUrl`, svgUrl = URL.createObjectURL(svgBlob)
exportPngStart ==
    [state |-> "loading", src |-> "blob", loads |-> 1, draws |-> 0,
     downloads |-> 0, error |-> Null, revoked |-> FALSE,
     handler |-> "running"]

\* img.onload
imgOnLoad(c, ctxAvailable) ==
    IF ~ctxAvailable
    THEN [c EXCEPT !.state = "rejected", !.error = ERR_CONTEXT]
    ELSE [c EXCEPT !.state = "encoding", !.draws = @ + 1]

\* Mutant of imgOnError: a failed load is tried again.
imgOnErrorRetries(c) == [c EXCEPT !.loads = @ + 1]

\* img.onerror
imgOnError(c) == [c EXCEPT !.state = "rejected", !.error = ERR_LOAD]

\* the canvas.toBlob callback
toBlobCallback(c, hasBlob) ==
    [c EXCEPT !.state = "resolved",
              !.downloads = IF hasBlob THEN @ + 1 ELSE @]

\* Mutant of pngButtonDisabled: the button ignores isExporting.
pngButtonNeverDisabled == FALSE

\* <button onClick={handleExportPng} disabled={isExporting}>
pngButtonDisabled == isExporting

\* a click on the PNG button: handleExportPng up to its await
ClickPng ==
    /\ ~pngButtonDisabled
    /\ Len(pngCalls) < MaxExports
    /\ isExporting' = TRUE
    /\ pngCalls' = Append(pngCalls, exportPngStart)
    /\ UNCHANGED <<storeVars, genVars, svgVars, parse, clip>>

ImgOnLoad ==
    \E c \in 1..Len(pngCalls) : \E ctxAvailable \in BOOLEAN :
       /\ pngCalls[c].state = "loading"
       /\ pngCalls' = [pngCalls EXCEPT ![c] = imgOnLoad(@, ctxAvailable)]
       /\ UNCHANGED <<storeVars, genVars, svgVars, parse, isExporting, clip>>

ImgOnError ==
    \E c \in 1..Len(pngCalls) :
       /\ pngCalls[c].state = "loading"
       /\ pngCalls' = [pngCalls EXCEPT ![c] = imgOnError(@)]
       /\ UNCHANGED <<storeVars, genVars, svgVars, parse, isExporting, clip>>

ToBlobCallback ==
    \E c \in 1..Len(pngCalls) : \E hasBlob \in BOOLEAN :
       /\ pngCalls[c].state = "encoding"
       /\ pngCalls' = [pngCalls EXCEPT ![c] = toBlobCallback(@, hasBlob)]
       /\ UNCHANGED <<storeVars, genVars, svgVars, parse, isExporting, clip>>

\* the continuation of `await exportPng(svg)`: exportPng revokes the URL
\* only if its promise resolved; handleExportPng has try / finally and no
\* catch, so a rejection leaves the handler as an unhandled rejection
PngSettled ==
    \E c \in 1..Len(pngCalls) :
       /\ pngCalls[c].handler = "running"
       /\ pngCalls[c].state \in {"resolved", "rejected"}
       /\ pngCalls' = [pngCalls EXCEPT ![c] =
             IF @.state = "resolved"
             THEN [@ EXCEPT !.revoked = TRUE, !.handler = "done"]
             ELSE [@ EXCEPT !.handler = "uncaught"]]
       /\ isExporting' = FALSE
       /\ UNCHANGED <<storeVars, genVars, svgVars, parse, clip>>

(***************************************************************************)
(* tikz-output.tsx: handleCopy. clip is [pending, copied, uncaught]: the   *)
(* writeText calls not settled yet, the `copied` flag, and the handlers    *)
(* that ended in an unhandled rejection (handleCopy has no try / catch).   *)
(***************************************************************************)
ClickCopy ==
    /\ clip.pending < MaxCopies
    /\ clip' = [clip EXCEPT !.pending = @ + 1]
    /\ UNCHANGED <<storeVars, genVars, svgVars, parse, pngCalls, isExporting>>

ClipboardResolves ==
    /\ clip.pending > 0
    /\ clip' = [clip EXCEPT !.pending = @ - 1, !.copied = TRUE]
    /\ UNCHANGED <<storeVars, genVars, svgVars, parse, pngCalls, isExporting>>

ClipboardRejects ==
    /\ clip.pending > 0
    /\ clip.uncaught < MaxCopies
    /\ clip' = [clip EXCEPT !.pending = @ - 1, !.uncaught = @ + 1]
    /\ UNCHANGED <<storeVars, genVars, svgVars, parse, pngCalls, isExporting>>

\* setTimeout(() => setCopied(false), 2000)
CopiedTimeout ==
    /\ clip.copied
    /\ clip' = [clip EXCEPT !.copied = FALSE]
    /\ UNCHANGED <<storeVars, genVars, svgVars, parse, pngCalls, isExporting>>

\* What either component shows the user about a failure: ExportPanel has
\* the state isExporting only and TikzOutput the state copied only; neither
\* renders anything for an error.
failureReported == FALSE

InitUi ==
    /\ nodes = <<>> /\ edges = <<>> /\ settings = DEFAULT_SETTINGS
    /\ selectedId = Null /\ selectedType = Null /\ now = 0 /\ nextId = 0
    /\ pc = "idle" /\ positions = <<>> /\ out = <<>> /\ gmd = GenIdle
    /\ IoIdle

NextUi ==
    \/ ClickPng
    \/ ImgOnLoad
    \/ ImgOnError
    \/ ToBlobCallback
    \/ PngSettled
    \/ ClickCopy
    \/ ClipboardResolves
    \/ ClipboardRejects
    \/ CopiedTimeout

SpecUi == InitUi /\ [][NextUi]_vars


(***************************************************************************)
(* parseLatex run turn by turn. The inputs are a command (or none)         *)
(* followed by up to MaxTail characters of braces, letters and blanks, and *)
(* the fractions \frac{a}{b}, \dfrac{a}{b} over a few arguments.           *)
(***************************************************************************)
ParsePrefixes ==
    {<<>>, CMD_FRAC, CMD_DFRAC, CMD_OVERLINE, CMD_BAR, CMD_TEXT, CMD_SQRT,
     <<"\\", "x">>, <<"\\">>, <<"_">>, <<"^">>}

ParseChars == {"{", "}", "a", "b", " "}

ParseTails ==
    UNION {[1..n -> ParseChars] : n \in 0..MaxTail}

FracArgs == {<<>>, <<"a">>, <<"b">>, <<"{", "a", "}">>, <<"a", "{", "}", "b">>}

ParseInputs ==
    {pre \o t : pre \in ParsePrefixes, t \in ParseTails}
    \cup {cmd \o <<"{">> \o a \o <<"}", "{">> \o b \o <<"}">> :
            cmd \in {CMD_FRAC, CMD_DFRAC}, a \in FracArgs, b \in FracArgs}

InitParse ==
    /\ nodes = <<>> /\ edges = <<>> /\ settings = DEFAULT_SETTINGS
    /\ selectedId = Null /\ selectedType = Null /\ now = 0 /\ nextId = 0
    /\ pc = "idle" /\ positions = <<>> /\ out = <<>> /\ gmd = GenIdle
    /\ scene = SceneNone /\ svgDoc = SvgNone /\ UiIdle
    /\ \E input \in ParseInputs :
         parse = [ParseIdle EXCEPT !.input = input, !.s = Trim(input)]

\* one turn of `while (i < s.length)`
ParseLatexTurn ==
    /\ ~parse.done
    /\ parse.i < Len(parse.s)
    /\ LET st == parseLatexStep(parse.s, parse.i)
       IN parse' = [parse EXCEPT !.tokens = @ \o st.push, !.i = st.i]
    /\ UNCHANGED <<storeVars, genVars, svgVars, uiVars>>

\* the loop is left: return tokens
ParseLatexReturn ==
    /\ ~parse.done
    /\ parse.i >= Len(parse.s)
    /\ parse' = [parse EXCEPT !.done = TRUE]
    /\ UNCHANGED <<storeVars, genVars, svgVars, uiVars>>

NextParse == ParseLatexTurn \/ ParseLatexReturn

SpecParse == InitParse /\ [][NextParse]_vars

\* parseLatex is synchronous code: once called it keeps running
FairSpecParse == SpecParse /\ WF_vars(NextParse)


(***************************************************************************)
(* Notions the properties are stated with, defined on the flat node list   *)
(* alone (independently of buildTree, layoutNode and generateNode).        *)
(***************************************************************************)
\* indices of the nodes whose parentId is id, in stored order
ChildIdx(ns, id) == {i \in 1..Len(ns) : ns[i].parentId = id}

\* the rank (0-based) of index i among a set of indices
RankIn(S, i) == Cardinality({j \in S : j < i})

RootIdx(ns) == {i \in 1..Len(ns) : ns[i].parentId = Null}

\* the parentId chain of node id reaches a node with parentId = null within
\* fuel steps; Hops is the number of steps it takes (the depth of the node)
RECURSIVE ChainReachesRoot(_, _, _)
ChainReachesRoot(ns, id, fuel) ==
    LET hit == {i \in 1..Len(ns) : ns[i].id = id}
    IN IF hit = {} THEN FALSE
       ELSE LET n == ns[CHOOSE i \in hit : TRUE]
            IN IF n.parentId = Null THEN TRUE
               ELSE IF fuel = 0 THEN FALSE
               ELSE ChainReachesRoot(ns, n.parentId, fuel - 1)

RECURSIVE Hops(_, _, _)
Hops(ns, id, fuel) ==
    LET hit == {i \in 1..Len(ns) : ns[i].id = id}
    IN IF hit = {} \/ fuel = 0 THEN 0
       ELSE LET n == ns[CHOOSE i \in hit : TRUE]
            IN IF n.parentId = Null THEN 0
               ELSE 1 + Hops(ns, n.parentId, fuel - 1)

DepthOf(ns, id) == Hops(ns, id, Len(ns))

\* a single rooted tree: exactly one root, and every chain reaches it
WellFormedTree(ns) ==
    /\ Cardinality(RootIdx(ns)) = 1
    /\ \A i \in 1..Len(ns) : ChainReachesRoot(ns, ns[i].id, Len(ns))

PositionedIds == {positions[i].id : i \in 1..Len(positions)}

PosOf(id) == positions[CHOOSE i \in 1..Len(positions) : positions[i].id = id]

\* the secondary (sibling) axis: x when vertical, y when horizontal
Secondary(p) == IF settings.direction = "horizontal" THEN p.y ELSE p.x

LayoutDone == pc \in {"tikz", "for", "while", "emit", "done"}

(***************************************************************************)
(* C1. computeTreeLayout places the k children of every positioned node at *)
(* depth d, in stored order i = 0..k-1, at secondary coordinate            *)
(* parentSecondary - (k-1)*s/2 + i*s with s = siblingDistance / 2^d; hence *)
(* adjacent siblings one level deeper are exactly half as far apart.       *)
(* (Stated without division: both sides are multiplied by 2 * 2^d.)        *)
(***************************************************************************)
C1_ChildPlacement ==
    LayoutDone =>
      \A id \in PositionedIds :
        LET kids == ChildIdx(nodes, id)
            k == Cardinality(kids)
            d == DepthOf(nodes, id)
            sd == settings.siblingDistance * Scale
        IN \A c \in kids :
             /\ nodes[c].id \in PositionedIds
             /\ 2 * Pow2(d) * Secondary(PosOf(nodes[c].id))
                  = 2 * Pow2(d) * Secondary(PosOf(id))
                    - (k - 1) * sd + 2 * RankIn(kids, c) * sd

\* adjacent siblings (consecutive children of one parent), as index pairs
AdjacentSiblings ==
    {<<a, b>> \in (1..Len(nodes)) \X (1..Len(nodes)) :
        /\ a < b
        /\ nodes[a].parentId = nodes[b].parentId
        /\ nodes[a].id \in PositionedIds /\ nodes[b].id \in PositionedIds
        /\ ~\E m \in 1..Len(nodes) :
              a < m /\ m < b /\ nodes[m].parentId = nodes[a].parentId}

SiblingGap(pr) ==
    Secondary(PosOf(nodes[pr[2]].id)) - Secondary(PosOf(nodes[pr[1]].id))

C1_Halving ==
    LayoutDone =>
      \A p \in AdjacentSiblings : \A q \in AdjacentSiblings :
        DepthOf(nodes, nodes[q[1]].id) = DepthOf(nodes, nodes[p[1]].id) + 1
          => 2 * SiblingGap(q) = SiblingGap(p)

C1_LayoutSpacing == C1_ChildPlacement /\ C1_Halving

\* a laid-out tree with sibling pairs at two consecutive depths
C1_Witness ==
    /\ LayoutDone
    /\ \E p \in AdjacentSiblings : \E q \in AdjacentSiblings :
         /\ DepthOf(nodes, nodes[p[1]].id) = 1
         /\ DepthOf(nodes, nodes[q[1]].id) = 2
         /\ SiblingGap(p) = settings.siblingDistance * Scale
         /\ 2 * SiblingGap(q) = SiblingGap(p)

(***************************************************************************)
(* C7. computeTreeLayout returns the empty list when no node has           *)
(* parentId = null; for a single rooted tree it returns exactly one        *)
(* position per input node (same length, no id repeated).                  *)
(***************************************************************************)
C7_RootUniqueness ==
    LayoutDone =>
      /\ RootIdx(nodes) = {} => positions = <<>>
      /\ WellFormedTree(nodes) =>
           /\ Len(positions) = Len(nodes)
           /\ PositionedIds = Ids(nodes)
           /\ \A i, j \in 1..Len(positions) :
                positions[i].id = positions[j].id => i = j

\* a tree of at least three nodes, two levels deep, has been laid out
C7_Witness ==
    /\ LayoutDone
    /\ WellFormedTree(nodes)
    /\ Len(nodes) >= 3
    /\ \E i \in 1..Len(nodes) : DepthOf(nodes, nodes[i].id) = 2
    /\ Len(positions) = Len(nodes)

\* the layout of a non-empty node list without a root is empty
C7_NoRootReached ==
    LayoutDone /\ Len(nodes) > 0 /\ RootIdx(nodes) = {} /\ positions = <<>>


(***************************************************************************)
(* Notions about the generated TikZ lines.                                 *)
(***************************************************************************)
IsNodeLine(l) == l.kind \in {"\\node", "node"}

LinesOf(kind) == {i \in 1..Len(out) : out[i].kind = kind}

\* the 90 degree relabeling of the specification, as a table
Rotated(pos) ==
    CASE pos = "left" -> "above"
      [] pos = "right" -> "below"
      [] pos = "above" -> "left"
      [] pos = "below" -> "right"
      [] pos = "center" -> "center"

\* the TikZ anchor that places an edge label at pos of the path midpoint
AnchorPlacing(pos) ==
    CASE pos = "above" -> "south"
      [] pos = "below" -> "north"
      [] pos = "left" -> "east"
      [] pos = "right" -> "west"

NodeById(id) == nodes[CHOOSE i \in 1..Len(nodes) : nodes[i].id = id]

EdgeById(id) == edges[CHOOSE i \in 1..Len(edges) : edges[i].id = id]

TikZEmitted == pc = "done" /\ LinesOf("\\node") # {}

(***************************************************************************)
(* C2. The sibling distance written in `level i/.style` is                 *)
(* siblingDistance / 2^(i-1) at 40 px per cm, and the value written for    *)
(* level i+1 is exactly half the value written for level i.                *)
(* (x is the printed value in tenths of a cm: x / 10 cm = x * 4 px.)       *)
(***************************************************************************)
C2_LevelStylesHalve ==
    pc = "done" =>
      /\ \A i \in LinesOf("level") :
           out[i].x * 4 * Pow2(out[i].level - 1) = settings.siblingDistance
      /\ \A i, j \in LinesOf("level") :
           out[j].level = out[i].level + 1 => 2 * out[j].x = out[i].x

(***************************************************************************)
(* C4. In horizontal direction generateTikZ emits, for every node label    *)
(* and every edge label, the stored labelPosition mapped through           *)
(* {left->above, right->below, above->left, below->right}; in vertical     *)
(* direction it emits the stored labelPosition unchanged. (An edge label's *)
(* position is emitted as the anchor that places it there.)                *)
(***************************************************************************)
C4_Expected(stored) ==
    IF settings.direction = "horizontal" THEN Rotated(stored) ELSE stored

C4_EmittedPositions ==
    TikZEmitted =>
      \A i \in 1..Len(out) :
        /\ IsNodeLine(out[i]) =>
             LET n == NodeById(out[i].id)
             IN IF n.label # "" /\ n.labelPosition # "center"
                THEN out[i].pos = C4_Expected(n.labelPosition)
                ELSE out[i].pos = Null
        /\ out[i].kind = "edge from parent node" =>
             out[i].pos = AnchorPlacing(C4_Expected(EdgeById(out[i].id).labelPosition))

\* a horizontal tree has been generated, with a rotated node label and a
\* rotated edge label in it
C4_Witness ==
    /\ TikZEmitted
    /\ settings.direction = "horizontal"
    /\ \E i \in 1..Len(out) :
         /\ IsNodeLine(out[i])
         /\ NodeById(out[i].id).labelPosition = "left"
         /\ out[i].pos = "above"
    /\ \E i \in LinesOf("edge from parent node") :
         /\ EdgeById(out[i].id).labelPosition = "right"
         /\ out[i].pos = "north"

(***************************************************************************)
(* C6. generateTikZ is total: for every node list, edge list and settings, *)
(* including a missing root, dangling parentId references and parent       *)
(* pointer cycles, it terminates and returns a string.                     *)
(***************************************************************************)
C6_GenerateTikZTerminates == <>(pc = "done")

(***************************************************************************)
(* C10. For a well-formed tree with n nodes the output contains exactly n  *)
(* node statements (one \node for the root, n-1 node for the others) and   *)
(* exactly n-1 `child {` blocks, each non-root node being nested inside a  *)
(* child block of its parent.                                              *)
(***************************************************************************)
\* the number of child blocks open at line i
BraceDepth(i) ==
    Cardinality({j \in LinesOf("child {") : j < i})
    - Cardinality({j \in LinesOf("}") : j < i})

\* the node statement a child block opened at line o belongs to: the last
\* node statement before it at the same brace depth
BlockOwner(o) ==
    LET cands == {j \in 1..(o - 1) :
                    IsNodeLine(out[j]) /\ BraceDepth(j) = BraceDepth(o)}
    IN IF cands = {} THEN Null
       ELSE out[CHOOSE j \in cands : \A m \in cands : m <= j].id

C10_NodeAndChildCounts ==
    (pc = "done" /\ WellFormedTree(nodes)) =>
      /\ Cardinality(LinesOf("\\node")) = 1
      /\ Cardinality(LinesOf("node")) = Len(nodes) - 1
      /\ Cardinality(LinesOf("child {")) = Len(nodes) - 1
      /\ Cardinality(LinesOf("}")) = Len(nodes) - 1
      /\ \A i \in 1..Len(nodes) :
           IF nodes[i].parentId = Null
           THEN \E l \in LinesOf("\\node") : out[l].id = nodes[i].id
           ELSE \E l \in LinesOf("node") :
                  /\ out[l].id = nodes[i].id
                  /\ out[l - 1].kind = "child {"
                  /\ BlockOwner(l - 1) = nodes[i].parentId

\* the worked example: 7 node statements, 6 `child {` tokens
C10_Witness ==
    /\ pc = "done"
    /\ nodes = SAMPLE_NODES
    /\ Cardinality(LinesOf("\\node")) + Cardinality(LinesOf("node")) = 7
    /\ Cardinality(LinesOf("child {")) = 6

(***************************************************************************)
(* C11. For every node whose labelPosition is center, generateTikZ emits a *)
(* plain filled-background text node, without the dot marker style and     *)
(* without a label annotation, matching the canvas, which draws no marker  *)
(* for any center node.                                                    *)
(***************************************************************************)
C11_CenterNodesArePlain ==
    TikZEmitted =>
      \A i \in 1..Len(out) :
        IsNodeLine(out[i]) =>
          LET n == NodeById(out[i].id)
          IN /\ n.labelPosition = "center" =>
                  out[i].style = "fill=white,rectangle" /\ out[i].pos = Null
             /\ (out[i].style = "dot") = canvasDrawsMarker(n)


(***************************************************************************)
(* C12. After exportSvg has processed the cloned scene, the serialized     *)
(* output contains zero foreignObject elements, for every scene: each      *)
(* foreignObject is removed whether or not its data-original-text is       *)
(* empty (and none of the elements put in its place is one).               *)
(***************************************************************************)
C12_NoForeignObjectLeft ==
    svgDoc.done =>
      /\ svgDoc.foreignObjects = <<>>
      /\ \A i \in 1..Len(svgDoc.elements) :
           /\ svgDoc.elements[i].el.tag \in {"text", "g"}
           /\ Range(svgDoc.elements[i].el.children)
                \subseteq {"rect", "text", "line", "path"}

\* a scene with a labelled foreignObject and one without a text was exported
C12_Witness ==
    /\ svgDoc.done
    /\ \E i \in 1..Len(scene.fos) : scene.fos[i].originalText = <<>>
    /\ \E i \in 1..Len(scene.fos) : scene.fos[i].originalText # <<>>
    /\ Len(svgDoc.elements) = Len(scene.fos) - 1

(***************************************************************************)
(* C13. The viewBox exportSvg sets contains every label: for each label    *)
(* with stored content anchor (cx, cy), viewBox x <= cx - padding and      *)
(* y <= cy - padding, and the box extends at least to (cx + 80, cy + 30);  *)
(* in particular a label placed above a node at distance d (30 px in the   *)
(* example) yields viewBox y <= nodeY - d - padding.                       *)
(***************************************************************************)
C13_ViewBoxContainsLabels ==
    svgDoc.done =>
      LET vb == svgDoc.viewBox
      IN /\ \A i \in 1..Len(scene.fos) :
              LET fo == scene.fos[i]
              IN (fo.contentX # <<>> /\ fo.contentY # <<>>) =>
                   /\ vb.x <= fo.contentX[1] - SVG_PADDING
                   /\ vb.y <= fo.contentY[1] - SVG_PADDING
                   /\ vb.x + vb.width >= fo.contentX[1] + 80
                   /\ vb.y + vb.height >= fo.contentY[1] + 30
         /\ \A i \in 1..Len(scene.labels) :
              LET l == scene.labels[i]
              IN (l.text # <<>> /\ l.position = "above") =>
                   vb.y <= l.y - l.labelOffset - SVG_PADDING

\* a label 30 px above the topmost node, outside the group's bounding box
C13_Witness ==
    /\ svgDoc.done
    /\ scene.bbox.y = 45
    /\ \E i \in 1..Len(scene.labels) :
         /\ scene.labels[i].text # <<>>
         /\ scene.labels[i].position = "above"
         /\ scene.labels[i].labelOffset = 30
         /\ scene.labels[i].y = 50
    /\ svgDoc.viewBox.y = 50 - 30 - 10 - SVG_PADDING

(***************************************************************************)
(* C14. In the exported vector graphic every label whose position is       *)
(* center is accompanied by an explicit opaque (white) background          *)
(* rectangle sized to its estimated text box, and no label with another    *)
(* position gets such a rectangle.                                         *)
(***************************************************************************)
C14_CenterLabelsHaveBackground ==
    svgDoc.done =>
      \A i \in 1..Len(svgDoc.elements) :
        LET e == svgDoc.elements[i]
        IN IF e.labelPosition = "center"
           THEN /\ e.el.rect # <<>>
                /\ e.el.rect[1].fill = "white"
                /\ e.el.rect[1].width > 0
                /\ e.el.rect[1].height > 0
           ELSE e.el.rect = <<>>

(***************************************************************************)
(* C15. exportPng rejects with a descriptive error when the image fails to *)
(* load and when the 2D canvas context is unavailable; either failure is   *)
(* terminal for that call: no download is triggered and no second load or  *)
(* draw is attempted.                                                      *)
(***************************************************************************)
C15_RejectedCall(c) ==
    /\ c.error \in {ERR_LOAD, ERR_CONTEXT}
    /\ c.downloads = 0
    /\ c.draws = 0
    /\ c.loads = 1

C15_RejectionIsTerminal ==
    /\ [](\A c \in 1..Len(pngCalls) :
            /\ pngCalls[c].loads <= 1
            /\ pngCalls[c].draws <= 1
            /\ pngCalls[c].state = "rejected" => C15_RejectedCall(pngCalls[c]))
    /\ [][\A c \in 1..Len(pngCalls) :
            /\ (pngCalls[c].state = "loading"
                  /\ pngCalls'[c].state \notin {"loading", "encoding"})
                 => (pngCalls'[c].state = "rejected"
                       /\ C15_RejectedCall(pngCalls'[c]))
            /\ pngCalls[c].state = "rejected"
                 => (pngCalls'[c].state = "rejected"
                       /\ C15_RejectedCall(pngCalls'[c]))]_vars

\* one call failed to load, another found no 2D context; both have settled
C15_Witness ==
    /\ \E c \in 1..Len(pngCalls) :
         /\ pngCalls[c].state = "rejected"
         /\ pngCalls[c].error = ERR_LOAD
         /\ pngCalls[c].handler # "running"
    /\ \E c \in 1..Len(pngCalls) :
         /\ pngCalls[c].state = "rejected"
         /\ pngCalls[c].error = ERR_CONTEXT
         /\ pngCalls[c].handler # "running"

(***************************************************************************)
(* C16. When a raster export or a clipboard copy is rejected, the calling  *)
(* UI component catches the rejection and reports the failure to the user. *)
(***************************************************************************)
C16_RejectionsCaughtAndReported ==
    /\ \A c \in 1..Len(pngCalls) : pngCalls[c].handler # "uncaught"
    /\ clip.uncaught = 0
    /\ (\E c \in 1..Len(pngCalls) :
          pngCalls[c].state = "rejected" /\ pngCalls[c].handler # "running")
         => failureReported

(***************************************************************************)
(* C17. From the moment a PNG export is started from the export panel      *)
(* until it settles, the PNG button is disabled, so at most one            *)
(* user-initiated PNG export is in flight at any time; once the export     *)
(* settles the button is enabled again, on the failure path as well as the *)
(* success path.                                                           *)
(***************************************************************************)
C17_InFlight == {c \in 1..Len(pngCalls) : pngCalls[c].handler = "running"}

C17_SuccessReached ==
    /\ Len(pngCalls) = 1
    /\ pngCalls[1].handler = "done"
    /\ pngCalls[1].downloads = 1
    /\ ~pngButtonDisabled

(***************************************************************************)
(* C18. exportPng hands the serialized scene to the offscreen image as a   *)
(* data URI and never as a blob/object URI.                                *)
(***************************************************************************)
C18_ImageSourceIsDataUri ==
    \A c \in 1..Len(pngCalls) : pngCalls[c].src = "data"

(***************************************************************************)
(* Notions about brace nesting, for the parser's properties.               *)
(***************************************************************************)
Opens(s, k) == Cardinality({j \in 1..k : s[j] = "{"})

Closes(s, k) == Cardinality({j \in 1..k : s[j] = "}"})

\* every closing brace of s closes an earlier opening brace of s, and none
\* stays open
Balanced(s) ==
    /\ \A k \in 1..Len(s) : Closes(s, k) <= Opens(s, k)
    /\ Closes(s, Len(s)) = Opens(s, Len(s))

\* s, read after an opening brace, never closes that brace
NeverCloses(s) == \A k \in 1..Len(s) : Closes(s, k) <= Opens(s, k)

SpecialChars == {"\\", "{", "}", "_", "^"}

(***************************************************************************)
(* C19. parseLatex returns exactly one token for each supported construct: *)
(* for brace-balanced s, a, b, \overline{s} gives one overline token with  *)
(* content s, \frac{a}{b} and \dfrac{a}{b} give one frac token with        *)
(* numerator a and denominator b (nested braces inside an argument are     *)
(* kept as part of it), and a non-empty input containing none of           *)
(* backslash, braces, '_' or '^' gives a single text token equal to the    *)
(* trimmed input.                                                          *)
(***************************************************************************)
C19_Overline ==
    \A n \in 0..Len(parse.input) :
      LET arg == Slice(parse.input, 10, 10 + n)
      IN (parse.input = CMD_OVERLINE \o <<"{">> \o arg \o <<"}">> /\ Balanced(arg))
           => parse.tokens = <<[Token("overline") EXCEPT !.value = arg]>>

C19_Frac ==
    \A cmd \in {CMD_FRAC, CMD_DFRAC} : \A n, m \in 0..Len(parse.input) :
      LET a == Slice(parse.input, Len(cmd) + 1, Len(cmd) + 1 + n)
          b == Slice(parse.input, Len(cmd) + n + 3, Len(cmd) + n + 3 + m)
      IN (/\ parse.input = cmd \o <<"{">> \o a \o <<"}", "{">> \o b \o <<"}">>
          /\ Balanced(a) /\ Balanced(b))
           => parse.tokens = <<[Token("frac") EXCEPT !.num = a, !.den = b]>>

C19_PlainText ==
    Range(parse.input) \cap SpecialChars = {}
      => parse.tokens = <<[Token("text") EXCEPT !.value = Trim(parse.input)]>>

C19_OneTokenPerConstruct ==
    parse.done =>
      /\ C19_Overline
      /\ C19_Frac
      /\ parse.input # <<>> => C19_PlainText

\* C19 as amended: the plain input is non-empty after trimming (an input of
\* blanks only gives no token at all).
C19_OneTokenPerConstructAmended ==
    parse.done =>
      /\ C19_Overline
      /\ C19_Frac
      /\ Trim(parse.input) # <<>> => C19_PlainText

\* \overline{{}} was parsed: the nested braces are kept in the content
C19_Witness ==
    /\ parse.done
    /\ parse.input = CMD_OVERLINE \o <<"{", "{", "}", "}">>
    /\ parse.tokens = <<[Token("overline") EXCEPT !.value = <<"{", "}">>]>>

\* a fraction with a nested argument and a padded plain text were parsed
C19_FracReached ==
    /\ parse.done
    /\ parse.input = CMD_DFRAC \o <<"{", "{", "a", "}", "}", "{", "b", "}">>
    /\ parse.tokens = <<[Token("frac") EXCEPT !.num = <<"{", "a", "}">>,
                                              !.den = <<"b">>]>>

(***************************************************************************)
(* C20. parseLatex terminates without throwing on every input string; for  *)
(* a command whose `{` is never closed, the brace scanner stops at the end *)
(* of the string and the token's content is everything captured after the  *)
(* opening brace up to the end of the string.                              *)
(***************************************************************************)
C20_UnclosedContent ==
    \A cmd \in {CMD_OVERLINE, CMD_BAR, CMD_TEXT, CMD_SQRT} :
      LET kind == CASE cmd = CMD_OVERLINE -> "overline"
                    [] cmd = CMD_BAR -> "bar"
                    [] cmd = CMD_TEXT -> "text"
                    [] cmd = CMD_SQRT -> "sqrt"
          rest == Slice(parse.s, Len(cmd) + 1, Len(parse.s))
      IN (parse.s = cmd \o <<"{">> \o rest /\ NeverCloses(rest))
           => parse.tokens = <<[Token(kind) EXCEPT !.value = rest]>>

C20_TerminatesKeepingUnclosedContent ==
    /\ <>parse.done
    /\ [](parse.done => C20_UnclosedContent)

(***************************************************************************)
(* C21. Applying the label-position rotation map {left:above, right:below, *)
(* above:left, below:right} twice in succession is not the identity;       *)
(* starting from any of the four positions, exactly 4 applications are     *)
(* needed to return to the starting position.                              *)
(***************************************************************************)
FourPositions == Range(EDGE_LABEL_POSITIONS)

\* the number of applications of rotatePos (the store's map) after which a
\* position is back where it started for the first time; 0 when it is not
\* back within 4 applications
RECURSIVE RotatePosReturns(_, _, _)
RotatePosReturns(start, cur, n) ==
    IF n > 4 THEN 0
    ELSE IF rotatePos(cur) = start THEN n
    ELSE RotatePosReturns(start, rotatePos(cur), n + 1)

\* the same for the generator's HORIZONTAL_POSITION_MAP
RECURSIVE PositionMapReturns(_, _, _)
PositionMapReturns(start, cur, n) ==
    IF n > 4 THEN 0
    ELSE IF HORIZONTAL_POSITION_MAP(cur) = start THEN n
    ELSE PositionMapReturns(start, HORIZONTAL_POSITION_MAP(cur), n + 1)

\* the positions the maps are applied to: the stored label positions of the
\* nodes and edges of the diagram
StoredFourPositions ==
    FourPositions \cap ({nodes[i].labelPosition : i \in 1..Len(nodes)}
                          \cup {edges[j].labelPosition : j \in 1..Len(edges)})

C21_FourApplicationsToReturn ==
    \A p \in StoredFourPositions :
      /\ rotatePos(rotatePos(p)) # p
      /\ RotatePosReturns(p, p, 1) = 4
      /\ HORIZONTAL_POSITION_MAP(HORIZONTAL_POSITION_MAP(p)) # p
      /\ PositionMapReturns(p, p, 1) = 4

\* C21 as amended: the map swaps left with above and right with below; one
\* application moves every one of the four positions, and two applications
\* are the identity (exactly 2 applications return to the start).
C21_TwoApplicationsToReturn ==
    \A p \in StoredFourPositions :
      /\ rotatePos(p) # p
      /\ rotatePos(rotatePos(p)) = p
      /\ RotatePosReturns(p, p, 1) = 2
      /\ HORIZONTAL_POSITION_MAP(p) # p
      /\ HORIZONTAL_POSITION_MAP(HORIZONTAL_POSITION_MAP(p)) = p
      /\ PositionMapReturns(p, p, 1) = 2

\* the store has applied the map to the sample: all four positions are
\* stored, the root's label (above) is now stored as left
C21_Witness ==
    /\ settings.direction = "horizontal"
    /\ StoredFourPositions = FourPositions
    /\ \E i \in 1..Len(nodes) :
         nodes[i].id = "root" /\ nodes[i].labelPosition = "left"

(***************************************************************************)
(* Notions about cascade deletion, defined on the parentId chains alone    *)
(* (independently of getDescendantIds).                                    *)
(***************************************************************************)
\* the parentId chain that starts at node id passes through anc
RECURSIVE ChainPasses(_, _, _, _)
ChainPasses(ns, id, anc, fuel) ==
    LET hit == {i \in 1..Len(ns) : ns[i].id = id}
    IN IF hit = {} \/ fuel = 0 THEN FALSE
       ELSE LET n == ns[CHOOSE i \in hit : TRUE]
            IN \/ n.parentId = anc
               \/ (n.parentId # Null /\ ChainPasses(ns, n.parentId, anc, fuel - 1))

\* id together with every node below it
SubtreeOf(ns, id) ==
    {id} \cup {ns[i].id : i \in {j \in 1..Len(ns) :
                                   ChainPasses(ns, ns[j].id, id, Len(ns))}}

\* the step removes exactly the nodes in gone and exactly the edges that
\* touch one of them; what is kept is kept as it was and in its order, and
\* the settings are not touched
RemovesExactly(gone) ==
    /\ nodes' = SelectSeq(nodes, LAMBDA n : n.id \notin gone)
    /\ \A i \in 1..Len(nodes) :
         nodes[i].id \notin gone => nodes[i] \in Range(nodes')
    /\ edges' = SelectSeq(edges, LAMBDA e : e.sourceId \notin gone
                                            /\ e.targetId \notin gone)
    /\ \A j \in 1..Len(edges) :
         (edges[j].sourceId \in gone \/ edges[j].targetId \in gone)
           => edges[j] \notin Range(edges')
    /\ settings' = settings

(***************************************************************************)
(* C22. deleteNode(id) removes exactly the node id and all of its          *)
(* descendants, and exactly the edges whose sourceId or targetId is one of *)
(* the removed nodes; every other node, every other edge and the settings  *)
(* are left unchanged.                                                     *)
(***************************************************************************)
C22_DeleteNodeRemovesSubtree ==
    [][\A id \in Ids(nodes) \cup {GhostId} :
         deleteNode(id) => RemovesExactly(SubtreeOf(nodes, id))]_vars

\* the subtree of A (A, its two children, the edge to A and the two edges
\* below it) is gone from the sample, the other four nodes and three edges
\* are there
C22_Witness ==
    /\ Ids(nodes) = {"root", "a-bar", "b2", "b2-bar"}
    /\ Ids(edges) = {"e2", "e5", "e6"}
    /\ Len(nodes) = 4
    /\ Len(edges) = 3

(***************************************************************************)
(* C23. deleteEdge(id) on an existing edge removes that edge's target node *)
(* together with all of its descendants and every edge touching a removed  *)
(* node (the edge itself included), and nothing else; deleteEdge with an   *)
(* id matching no edge leaves nodes and edges unchanged.                   *)
(***************************************************************************)
C23_DeleteEdgeRemovesTargetSubtree ==
    [][/\ \A j \in 1..Len(edges) :
            deleteEdge(edges[j].id) =>
              /\ RemovesExactly(SubtreeOf(nodes, edges[j].targetId))
              /\ edges[j] \notin Range(edges')
              /\ edges[j].targetId \notin Ids(nodes')
       /\ deleteEdge(GhostId) => (nodes' = nodes /\ edges' = edges)]_vars

(***************************************************************************)
(* C24. An edge's labelOffsetY is math-up-positive in every output: a      *)
(* positive labelOffsetY moves the edge label upward on the canvas and     *)
(* produces a non-negative (upward) yshift in the TikZ output, and a       *)
(* negative one moves it downward in both.                                 *)
(* (On the canvas y grows downward, so upward is a smaller y; the movement *)
(* is measured against the same edge with labelOffsetY = 0.)               *)
(***************************************************************************)
C24_OffsetYIsUpPositive ==
    TikZEmitted =>
      \A i \in LinesOf("edge from parent node") :
        LET e == EdgeById(out[i].id)
            isHoriz == settings.direction = "horizontal"
            moved == canvasEdgeLabelDy(e, isHoriz)
                       - canvasEdgeLabelDy([e EXCEPT !.labelOffsetY = 0], isHoriz)
        IN /\ e.labelOffsetY > 0 => (moved < 0 /\ out[i].y >= 0)
           /\ e.labelOffsetY < 0 => (moved > 0 /\ out[i].y <= 0)

(***************************************************************************)
(* C25. Toggling settings.direction twice through updateSettings (vertical *)
(* -> horizontal -> vertical, or the reverse) restores every node's        *)
(* labelPosition and labelOffset and every edge's labelPosition,           *)
(* labelOffsetX and labelOffsetY to the values they had before the first   *)
(* toggle.                                                                 *)
(***************************************************************************)
OtherDirection(st) ==
    IF st.direction = "vertical" THEN "horizontal" ELSE "vertical"

\* the store after one toggle and after two toggles, from the current state
ToggledOnce ==
    updateSettingsResult(nodes, edges, settings,
                         [direction |-> OtherDirection(settings)])

ToggledTwice ==
    updateSettingsResult(ToggledOnce.nodes, ToggledOnce.edges,
                         ToggledOnce.settings,
                         [direction |-> OtherDirection(ToggledOnce.settings)])

C25_DoubleToggleRestores ==
    /\ ToggledTwice.settings.direction = settings.direction
    /\ Len(ToggledTwice.nodes) = Len(nodes)
    /\ Len(ToggledTwice.edges) = Len(edges)
    /\ \A i \in 1..Len(nodes) :
         /\ ToggledTwice.nodes[i].labelPosition = nodes[i].labelPosition
         /\ ToggledTwice.nodes[i].labelOffset = nodes[i].labelOffset
    /\ \A j \in 1..Len(edges) :
         /\ ToggledTwice.edges[j].labelPosition = edges[j].labelPosition
         /\ ToggledTwice.edges[j].labelOffsetX = edges[j].labelOffsetX
         /\ ToggledTwice.edges[j].labelOffsetY = edges[j].labelOffsetY

(***************************************************************************)
(* C26. For every node list, including lists with more than one node whose *)
(* parentId is null, computeTreeLayout and generateTikZ walk the same      *)
(* root: the set of node ids that receive a position equals the set of     *)
(* nodes for which generateTikZ emits a node statement.                    *)
(***************************************************************************)
EmittedIds == {out[i].id : i \in {j \in 1..Len(out) : IsNodeLine(out[j])}}

C26_LayoutAndTikZWalkSameRoot ==
    pc = "done" => PositionedIds = EmittedIds

(***************************************************************************)
(* C29. Every object URL that exportPng creates for the serialized SVG is  *)
(* revoked before exportPng settles, on the success path and on both       *)
(* failure paths (image load error, canvas context unavailable).           *)
(* (A call has settled when its handler is no longer running.)             *)
(***************************************************************************)
C29_SvgUrlRevokedWhenSettled ==
    \A c \in 1..Len(pngCalls) :
      pngCalls[c].handler # "running" => pngCalls[c].revoked

(***************************************************************************)
(* C27. In every store state reachable by addNode, setSelected on an       *)
(* existing node or edge, deleteNode, deleteEdge, setDiagram and           *)
(* clearDiagram, the selection is consistent: selectedId is null exactly   *)
(* when selectedType is null, and otherwise it identifies an existing node *)
(* (selectedType = node) or an existing edge (selectedType = edge); no     *)
(* operation leaves the selection pointing at a removed item.              *)
(***************************************************************************)
C27_SelectionConsistent ==
    /\ (selectedId = Null) <=> (selectedType = Null)
    /\ selectedType = "node" => selectedId \in Ids(nodes)
    /\ selectedType = "edge" => selectedId \in Ids(edges)

(***************************************************************************)
(* C28. All edge ids in the store are pairwise distinct after any sequence *)
(* of addNode calls, including two calls that happen within the same clock *)
(* millisecond, so that updateEdge(id) and deleteEdge(id) always address   *)
(* exactly one edge.                                                       *)
(***************************************************************************)
C28_EdgeIdsDistinct ==
    \A i, j \in 1..Len(edges) : edges[i].id = edges[j].id => i = j

(***************************************************************************)
(* C30. Whenever the store's node list is empty while the canvas is        *)
(* mounted (at start-up, after clearDiagram, or after deleting the root),  *)
(* the canvas next loads the sample diagram (7 nodes, 6 edges) through     *)
(* setDiagram; hence the node list never stays empty and the toolbar's     *)
(* '+ root' action never becomes enabled.                                  *)
(* ('+ root' is enabled when hasRoot() is false; "becomes enabled" is read *)
(* as: no step of the store ends in a state where it is.)                  *)
(***************************************************************************)
SampleLoaded ==
    /\ nodes = SAMPLE_NODES
    /\ edges = SAMPLE_EDGES
    /\ Len(nodes) = 7
    /\ Len(edges) = 6

C30_EmptyListLoadsSampleNext ==
    /\ [][nodes = <<>> => SampleLoaded']_vars
    /\ (nodes = <<>>) ~> (nodes # <<>>)
    /\ [][hasRoot']_vars

\* C30 as amended: an empty node list does not stay empty, the step that
\* ends it loads the sample or adds a root by hand, and '+ root' is enabled
\* exactly while the list is empty.
C30_EmptyListDoesNotStay ==
    /\ (nodes = <<>>) ~> (nodes # <<>>)
    /\ [][(nodes = <<>> /\ nodes' # <<>>) =>
            \/ SampleLoaded'
            \/ (Len(nodes') = 1 /\ nodes'[1].parentId = Null /\ edges' = <<>>)]_vars
    /\ [](~hasRoot <=> nodes = <<>>)

\* the sample was loaded again: a node had been added before, and the
\* diagram was emptied by deleting its root (or by clearDiagram)
C30_Witness ==
    /\ SampleLoaded
    /\ nextId = 1

(***************************************************************************)
(* C3. For every node label and edge label, in both directions and after   *)
(* any sequence of direction toggles, the label position generateTikZ      *)
(* emits equals the position at which the canvas renders that label.       *)
(***************************************************************************)
C3_TikZMatchesCanvas ==
    LET isHorizontal == settings.direction = "horizontal"
    IN /\ \A i \in 1..Len(nodes) :
            (nodes[i].label # "" /\ nodes[i].labelPosition # "center") =>
               formatLabel(nodes[i].label, nodes[i].labelPosition,
                           nodes[i].labelOffset, isHorizontal).pos
                 = canvasNodeLabelPos(nodes[i])
       /\ \A j \in 1..Len(edges) :
            edges[j].label # "" =>
               generateEdgeLabel(edges[j], isHorizontal)[1].pos
                 = AnchorPlacing(canvasEdgeLabelPos(edges[j]))

(***************************************************************************)
(* C5. updateSettings with a direction different from the current one      *)
(* replaces the stored labelPosition of every node and every edge by its   *)
(* image under {left->above, right->below, above->left, below->right}      *)
(* (center stays center), in the store update that changes the direction.  *)
(***************************************************************************)
C5_ToggleRotatesStoredLabels ==
    [][settings'.direction # settings.direction =>
         /\ Len(nodes') = Len(nodes)
         /\ Len(edges') = Len(edges)
         /\ \A i \in 1..Len(nodes) :
              nodes'[i].labelPosition = Rotated(nodes[i].labelPosition)
         /\ \A j \in 1..Len(edges) :
              edges'[j].labelPosition = Rotated(edges[j].labelPosition)]_vars

\* the sample diagram after a toggle to horizontal: A's label (stored left)
\* and the label of the edge to it are now stored as above
C5_Witness ==
    /\ settings.direction = "horizontal"
    /\ \E i \in 1..Len(nodes) :
         nodes[i].id = "a" /\ nodes[i].labelPosition = "above"
    /\ \E j \in 1..Len(edges) :
         edges[j].id = "e1" /\ edges[j].labelPosition = "above"

C8_AddRootReached ==
    Len(nodes) = 1 /\ nodes[1].id = generateId(1) /\ nodes[1].parentId = Null

(***************************************************************************)
(* C9. Every non-root node has exactly one incoming edge (targetId = the   *)
(* node, sourceId = the node's parentId), and every edge's sourceId and    *)
(* targetId reference existing nodes.                                      *)
(***************************************************************************)
C9_OneIncomingEdge ==
    /\ \A i \in 1..Len(nodes) :
         nodes[i].parentId # Null =>
           LET incoming == {j \in 1..Len(edges) : edges[j].targetId = nodes[i].id}
           IN /\ Cardinality(incoming) = 1
              /\ \A j \in incoming : edges[j].sourceId = nodes[i].parentId
    /\ \A j \in 1..Len(edges) :
         edges[j].sourceId \in Ids(nodes) /\ edges[j].targetId \in Ids(nodes)

\* the subtree of A was deleted from the sample and a child was added
C9_Witness ==
    /\ "root" \in Ids(nodes)
    /\ "a" \notin Ids(nodes)
    /\ \E j \in 1..Len(edges) : edges[j].targetId = generateId(1)
    /\ Len(edges) = Len(nodes) - 1

(***************************************************************************)
(* The store specification.                                                *)
(***************************************************************************)
Init ==
    /\ nodes = <<>>
    /\ edges = <<>>
    /\ settings = DEFAULT_SETTINGS
    /\ selectedId = Null
    /\ selectedType = Null
    /\ now = 0
    /\ nextId = 0
    /\ pc = "idle"
    /\ positions = <<>>
    /\ out = <<>>
    /\ gmd = GenIdle
    /\ IoIdle

Next ==
    \/ AddRoot
    \/ AddChild
    \/ DeleteNode
    \/ DeleteEdge
    \/ ToggleDirection
    \/ LoadSample

Spec == Init /\ [][Next]_vars

(***************************************************************************)
(* The store with its selection: the operations of the store that read or  *)
(* write selectedId / selectedType, called with any node or edge of the    *)
(* diagram as the store's interface allows.                                *)
(***************************************************************************)
NextSel ==
    \/ AddRoot
    \/ AddChild
    \/ SetSelected
    \/ DeleteNode
    \/ DeleteEdge
    \/ LoadSample
    \/ clearDiagram

SpecSel == Init /\ [][NextSel]_vars

\* The canvas stays mounted and React runs the effect of a committed render:
\* while the node list is empty, loading the sample is not postponed forever
FairSpecSel == SpecSel /\ WF_vars(LoadSample)

(***************************************************************************)
(* The store under addNode calls in a row: children added to the loaded    *)
(* diagram, each call reading the clock in the same millisecond as the     *)
(* call before it or later, and edges deleted by their id.                 *)
(***************************************************************************)
AddChildInARow ==
    \E i \in 1..Len(nodes) : addNodeCall(nodes[i].id, MaxAdds)

NextAdd ==
    \/ LoadSample
    \/ AddChildInARow
    \/ DeleteEdge

SpecAdd == Init /\ [][NextAdd]_vars

====
